---------------------------- MODULE Spec2Model ----------------------------
(***************************************************************************)
(* A model of the crossword genetic algorithm:                             *)
(*   - CrosswordGrid.js : the placement evaluator and the genome operators *)
(*   - CrosswordGA.js   : one Run (initialize / evolve / compaction / run) *)
(*   - the App component (part_000): the multi-run coordinator             *)
(*                                                                         *)
(* Conventions.                                                            *)
(*   A word is a sequence of one-letter strings.  A gene carries the index *)
(*   of its word (gene.word / gene.clue of the source are copies of the    *)
(*   word list entry and are looked up through wordIndex).                 *)
(*   A grid is the partial map from filled cells <<x, y>> to letters; a    *)
(*   cell outside its domain is the source's null.                         *)
(*   Fitness is kept in whole points: every real-valued term of the        *)
(*   source's formula is rounded down to an integer before it is added.    *)
(*   Math.random() is a choice among RandomSamples (hundredths).           *)
(***************************************************************************)
EXTENDS Integers, Sequences, FiniteSets, TLC

\* ------------------------------------------------------------------------
\* Generic helpers
\* ------------------------------------------------------------------------

Max(a, b) == IF a >= b THEN a ELSE b

Min(a, b) == IF a <= b THEN a ELSE b

Abs(a) == IF a < 0 THEN -a ELSE a

Range(s) == {s[i] : i \in 1..Len(s)}

\* floor(sqrt(n)) for 0 <= n < 2^31, the integer image of Math.sqrt: the
\* root is built bit by bit from 2^15 down.
ISqrt(n) ==
    LET bit == [i \in 1..16 |-> 2 ^ (16 - i)]
        root[i \in 0..16] ==
            IF i = 0 THEN 0
            ELSE LET prev == root[i - 1]
                     cand == prev + bit[i]
                 IN  IF cand <= 46340 /\ cand * cand <= n THEN cand ELSE prev
    IN  root[16]

SumSeq(s) ==
    LET sum[i \in 0..Len(s)] == IF i = 0 THEN 0 ELSE sum[i - 1] + s[i]
    IN  sum[Len(s)]

\* Array.prototype.sort with a consistent comparator (a - b on the keys):
\* ascending and stable.  keys[i] is the key of s[i].
SortByKey(s, keys) ==
    LET n == Len(s)
        pos(i) == 1 + Cardinality({j \in 1..n : keys[j] < keys[i]
                                       \/ (keys[j] = keys[i] /\ j < i)})
    IN  [p \in 1..n |-> s[CHOOSE i \in 1..n : pos(i) = p]]

Perms(n) == {p \in [1..n -> 1..n] : \A a \in 1..n : \E i \in 1..n : p[i] = a}

\* All orderings of the elements (by position) of a sequence.
Shuffles(s) == {[i \in 1..Len(s) |-> s[p[i]]] : p \in Perms(Len(s))}

\* The concatenation of a sequence of sequences.
Flatten(ss) ==
    LET cat[i \in 0..Len(ss)] == IF i = 0 THEN <<>> ELSE cat[i - 1] \o ss[i]
    IN  cat[Len(ss)]

\* ------------------------------------------------------------------------
\* CrosswordGrid.js : the placement evaluator
\* ------------------------------------------------------------------------

Fail == [success |-> FALSE, score |-> 0]

CellAt(w, gene, i) ==
    [x |-> IF gene.direction = "across" THEN gene.x + (i - 1) ELSE gene.x,
     y |-> IF gene.direction = "down" THEN gene.y + (i - 1) ELSE gene.y,
     letter |-> w[i]]

Filled(grid, x, y) == <<x, y>> \in DOMAIN grid

\* The first placed word (in placedWords order) one of whose cells is (x, y);
\* 0 when none.
OwnerOf(placedWords, x, y) ==
    LET owners == {k \in 1..Len(placedWords) :
                      \E c \in Range(placedWords[k].cells) : c.x = x /\ c.y = y}
    IN  IF owners = {} THEN 0 ELSE CHOOSE k \in owners : \A m \in owners : k <= m

\* C23 mutant: a word may lie beside the cells of other words
tryPlaceWordBesideOthers(grid, gridSize, w, gene, placedWords) ==
    LET n == Len(w)
        x == gene.x
        y == gene.y
        across == gene.direction = "across"
        trial(cells, hit, owner) ==
            LET conflict == \E i \in hit : grid[<<cells[i].x, cells[i].y>>] # w[i]
                parallel == \E i \in hit : owner[i] # 0
                                /\ placedWords[owner[i]].direction = gene.direction
                twice == \E i, j \in hit : i < j /\ owner[i] # 0 /\ owner[j] # 0
                                /\ placedWords[owner[i]].wordIndex
                                     = placedWords[owner[j]].wordIndex
                before == IF across THEN x > 0 /\ Filled(grid, x - 1, y)
                                    ELSE y > 0 /\ Filled(grid, x, y - 1)
                after == IF across THEN x + n < gridSize /\ Filled(grid, x + n, y)
                                   ELSE y + n < gridSize /\ Filled(grid, x, y + n)
            IN  IF x < 0 \/ y < 0 THEN Fail
                ELSE IF across /\ x + n > gridSize THEN Fail
                ELSE IF ~across /\ y + n > gridSize THEN Fail
                ELSE IF conflict \/ parallel \/ twice THEN Fail
                ELSE IF before \/ after THEN Fail
                ELSE [success |-> TRUE, word |-> w, x |-> x, y |-> y,
                      direction |-> gene.direction, cells |-> cells,
                      intersections |-> Cardinality(hit), score |-> Cardinality(hit),
                      wordIndex |-> gene.wordIndex]
        withHit(cells, hit) ==
            trial(cells, hit, [i \in hit |-> OwnerOf(placedWords, cells[i].x, cells[i].y)])
        withCells(cells) ==
            withHit(cells, {i \in 1..n : Filled(grid, cells[i].x, cells[i].y)})
    IN  withCells([i \in 1..n |-> CellAt(w, gene, i)])

\* tryPlaceWord: the placement trial.  w is the gene's word, gridSize the
\* side of the (square) grid.  Returns Fail or the placed word; the grid
\* after a successful trial is PlaceOn(grid, result).
tryPlaceWord(grid, gridSize, w, gene, placedWords) ==
    LET n == Len(w)
        x == gene.x
        y == gene.y
        across == gene.direction = "across"
        trial(cells, hit, owner) ==
            LET conflict == \E i \in hit : grid[<<cells[i].x, cells[i].y>>] # w[i]
                parallel == \E i \in hit : owner[i] # 0
                                /\ placedWords[owner[i]].direction = gene.direction
                twice == \E i, j \in hit : i < j /\ owner[i] # 0 /\ owner[j] # 0
                                /\ placedWords[owner[i]].wordIndex
                                     = placedWords[owner[j]].wordIndex
                sideFilled(i) ==
                    IF across
                    THEN \E dy \in {-1, 1} :
                            /\ cells[i].y + dy >= 0 /\ cells[i].y + dy < gridSize
                            /\ Filled(grid, cells[i].x, cells[i].y + dy)
                    ELSE \E dx \in {-1, 1} :
                            /\ cells[i].x + dx >= 0 /\ cells[i].x + dx < gridSize
                            /\ Filled(grid, cells[i].x + dx, cells[i].y)
                adjacent == \E i \in 1..n : sideFilled(i) /\ i \notin hit
                before == IF across THEN x > 0 /\ Filled(grid, x - 1, y)
                                    ELSE y > 0 /\ Filled(grid, x, y - 1)
                after == IF across THEN x + n < gridSize /\ Filled(grid, x + n, y)
                                   ELSE y + n < gridSize /\ Filled(grid, x, y + n)
            IN  IF x < 0 \/ y < 0 THEN Fail
                ELSE IF across /\ x + n > gridSize THEN Fail
                ELSE IF ~across /\ y + n > gridSize THEN Fail
                ELSE IF conflict \/ parallel \/ twice THEN Fail
                ELSE IF adjacent THEN Fail
                ELSE IF before \/ after THEN Fail
                ELSE [success |-> TRUE, word |-> w, x |-> x, y |-> y,
                      direction |-> gene.direction, cells |-> cells,
                      intersections |-> Cardinality(hit), score |-> Cardinality(hit),
                      wordIndex |-> gene.wordIndex]
        withHit(cells, hit) ==
            trial(cells, hit, [i \in hit |-> OwnerOf(placedWords, cells[i].x, cells[i].y)])
        withCells(cells) ==
            withHit(cells, {i \in 1..n : Filled(grid, cells[i].x, cells[i].y)})
    IN  withCells([i \in 1..n |-> CellAt(w, gene, i)])

\* The grid after the cells of a successful trial have been written.
PlaceOn(grid, placed) ==
    LET new == {<<placed.cells[i].x, placed.cells[i].y>> : i \in 1..Len(placed.cells)}
        letterAt(c) == LET i == CHOOSE k \in 1..Len(placed.cells) :
                                    <<placed.cells[k].x, placed.cells[k].y>> = c
                       IN  placed.cells[i].letter
    IN  [c \in DOMAIN grid \cup new |-> IF c \in new THEN letterAt(c) ELSE grid[c]]

\* One candidate of findAllIntersectionPoints: letter i of the word against
\* letter j of placed word pw; <<>> when it is out of bounds or fails the
\* trial, else the one-element sequence holding the candidate.
Candidate(grid, gridSize, w, gene, placedWords, pw, i, j) ==
    LET pAcross == pw.direction = "across"
        newDirection == IF pAcross THEN "down" ELSE "across"
        newX == IF pAcross THEN pw.x + (j - 1) ELSE pw.x - (i - 1)
        newY == IF pAcross THEN pw.y - (i - 1) ELSE pw.y + (j - 1)
        endX == IF newDirection = "across" THEN newX + Len(w) ELSE newX
        endY == IF newDirection = "down" THEN newY + Len(w) ELSE newY
        pushed(testResult) ==
            IF ~testResult.success THEN <<>>
            ELSE <<[x |-> newX, y |-> newY, direction |-> newDirection,
                    intersections |-> testResult.intersections,
                    score |-> testResult.score]>>
    IN  IF w[i] # pw.word[j] THEN <<>>
        ELSE IF ~(newX >= 0 /\ newY >= 0 /\ endX <= gridSize /\ endY <= gridSize)
        THEN <<>>
        ELSE pushed(tryPlaceWord(grid, gridSize, w,
                                 [gene EXCEPT !.x = newX, !.y = newY,
                                              !.direction = newDirection],
                                 placedWords))

\* findAllIntersectionPoints: the candidates in the order the nested loops
\* (placed word, letter of the word, letter of the placed word) push them.
findAllIntersectionPoints(grid, gridSize, w, gene, placedWords) ==
    Flatten([k \in 1..Len(placedWords) |->
        Flatten([i \in 1..Len(w) |->
            Flatten([j \in 1..Len(placedWords[k].word) |->
                Candidate(grid, gridSize, w, gene, placedWords,
                          placedWords[k], i, j)])])])

\* The loop over the best candidates: the result of the first whose trial
\* succeeds with an intersection, else failure.
FirstPlacement(grid, gridSize, w, gene, placedWords, cands) ==
    LET first(results) ==
            LET good == {k \in 1..Len(results) :
                            results[k].success /\ results[k].intersections > 0}
            IN  IF good = {} THEN Fail
                ELSE results[CHOOSE k \in good : \A m \in good : k <= m]
    IN  first([k \in 1..Len(cands) |->
                  tryPlaceWord(grid, gridSize, w,
                               [gene EXCEPT !.x = cands[k].x, !.y = cands[k].y,
                                            !.direction = cands[k].direction],
                               placedWords)])

TopCandidates == 10

\* C24 mutant: the candidates with the fewest intersections come first
ScoreKeysAscending(possible) == [k \in 1..Len(possible) |-> possible[k].score]

\* possibleIntersections.sort((a, b) => b.score - a.score): the keys of a
\* stable sort by score, highest first
ScoreKeys(possible) == [k \in 1..Len(possible) |-> -possible[k].score]

\* tryPlaceWordWithIntersection
\* C16 mutant: the first word is tried where its gene says
StoredGene(gene, gridSize, w) == gene

\* centerGene (lines 267-272)
CenterGene(gene, gridSize, w) ==
    [gene EXCEPT !.x = (gridSize - Len(w)) \div 2,
                 !.y = gridSize \div 2,
                 !.direction = "across"]

\* C18 mutant: a word after the first is tried where its gene says
tryPlaceWordAsStored(grid, gridSize, w, gene, placedWords, isFirstWord) ==
    IF isFirstWord
    THEN tryPlaceWord(grid, gridSize, w, CenterGene(gene, gridSize, w), placedWords)
    ELSE tryPlaceWord(grid, gridSize, w, gene, placedWords)

tryPlaceWordWithIntersection(grid, gridSize, w, gene, placedWords, isFirstWord) ==
    LET best(sorted) == SubSeq(sorted, 1, Min(TopCandidates, Len(sorted)))
        byScore(possible) ==
            best(SortByKey(possible, ScoreKeys(possible)))
    IN  IF isFirstWord
        THEN tryPlaceWord(grid, gridSize, w, CenterGene(gene, gridSize, w), placedWords)
        ELSE FirstPlacement(grid, gridSize, w, gene, placedWords,
                 byScore(findAllIntersectionPoints(grid, gridSize, w, gene, placedWords)))

\* C20 mutant: the letters are written while the cells are checked
GridWrittenWhileChecked(grid, gridSize, w, gene, result) ==
    LET inside == {i \in 1..Len(w) :
                      /\ CellAt(w, gene, i).x >= 0 /\ CellAt(w, gene, i).x < gridSize
                      /\ CellAt(w, gene, i).y >= 0 /\ CellAt(w, gene, i).y < gridSize}
        points == {<<CellAt(w, gene, i).x, CellAt(w, gene, i).y>> : i \in inside}
        letterAt(c) == LET i == CHOOSE k \in inside :
                                    <<CellAt(w, gene, k).x, CellAt(w, gene, k).y>> = c
                       IN  w[i]
    IN  [c \in DOMAIN grid \cup points |->
            IF c \in points THEN letterAt(c) ELSE grid[c]]

\* the grid tryPlaceWord leaves: the letters are written at lines 452-455,
\* after the last return of a failure
GridAfterTrial(grid, gridSize, w, gene, result) ==
    IF result.success THEN PlaceOn(grid, result) ELSE grid

EmptyGrid == [c \in {} |-> ""]

\* The placement loop of calculateFitness / getBestGrid / getGrid over the
\* genes sorted by placementOrder: [grid, placedWords] after the last gene.
PlaceAll(ws, gridSize, sortedGenes) ==
    LET step(prev, gene) ==
            LET placed(placement) ==
                    IF ~placement.success THEN prev
                    ELSE [grid |-> PlaceOn(prev.grid, placement),
                          placedWords |-> Append(prev.placedWords, placement)]
            IN  IF \E k \in 1..Len(prev.placedWords) :
                       prev.placedWords[k].wordIndex = gene.wordIndex
                THEN prev
                ELSE placed(tryPlaceWordWithIntersection(
                                prev.grid, gridSize, ws[gene.wordIndex + 1],
                                gene, prev.placedWords, prev.placedWords = <<>>))
        after[i \in 0..Len(sortedGenes)] ==
            IF i = 0 THEN [grid |-> EmptyGrid, placedWords |-> <<>>]
            ELSE step(after[i - 1], sortedGenes[i])
    IN  after[Len(sortedGenes)]

\* The layout a genome evaluates to.
Layout(ws, genes, gridSize) ==
    PlaceAll(ws, gridSize,
             SortByKey(genes, [k \in 1..Len(genes) |-> genes[k].placementOrder]))

CellSet(pw) == {<<pw.cells[i].x, pw.cells[i].y>> : i \in 1..Len(pw.cells)}

\* the cells of the words, all together
AllCells(placedWords) ==
    UNION {Range(placedWords[k].cells) : k \in 1..Len(placedWords)}

\* the letter the words, written one after the other, leave at (x, y)
LastLetter(placedWords, x, y) ==
    LET k == CHOOSE m \in 1..Len(placedWords) :
                 /\ \E c \in Range(placedWords[m].cells) : c.x = x /\ c.y = y
                 /\ \A j \in (m + 1)..Len(placedWords) :
                        ~\E c \in Range(placedWords[j].cells) : c.x = x /\ c.y = y
        c == CHOOSE d \in Range(placedWords[k].cells) : d.x = x /\ d.y = y
    IN  c.letter

\* the smallest and the largest of a non-empty set of numbers
Least(S) == CHOOSE v \in S : \A u \in S : v <= u

Greatest(S) == CHOOSE v \in S : \A u \in S : v >= u

\* C19 mutant: x and y of the words are moved, their cells are not
createCompactGridStaleCells(placedWords, gridSize) ==
    LET cells == AllCells(placedWords)
        minX == Min(gridSize, Least({c.x : c \in cells}))
        minY == Min(gridSize, Least({c.y : c \in cells}))
        maxX == Max(0, Greatest({c.x : c \in cells}))
        maxY == Max(0, Greatest({c.y : c \in cells}))
        adjustedWords == [k \in 1..Len(placedWords) |->
            [placedWords[k] EXCEPT !.x = @ - minX + 1, !.y = @ - minY + 1]]
        inside == {<<c.x, c.y>> : c \in {d \in AllCells(adjustedWords) :
                       d.y < maxY - minY + 3 /\ d.x < maxX - minX + 3}}
    IN  [grid |-> [at \in inside |-> LastLetter(adjustedWords, at[1], at[2])],
         width |-> maxX - minX + 3,
         height |-> maxY - minY + 3,
         placedWords |-> adjustedWords,
         gridSize |-> Max(maxX - minX + 3, maxY - minY + 3)]

\* createCompactGrid(placedWords, gridSize), placedWords not empty: the crop
\* to the bounding box of the cells with one cell of padding
createCompactGrid(placedWords, gridSize) ==
    LET cells == AllCells(placedWords)
        minX == Min(gridSize, Least({c.x : c \in cells}))
        minY == Min(gridSize, Least({c.y : c \in cells}))
        maxX == Max(0, Greatest({c.x : c \in cells}))
        maxY == Max(0, Greatest({c.y : c \in cells}))
        adjustedWords == [k \in 1..Len(placedWords) |->
            [placedWords[k] EXCEPT
                !.x = @ - minX + 1,
                !.y = @ - minY + 1,
                !.cells = [i \in 1..Len(@) |->
                              [@[i] EXCEPT !.x = @ - minX + 1, !.y = @ - minY + 1]]]]
        inside == {<<c.x, c.y>> : c \in {d \in AllCells(adjustedWords) :
                       d.y < maxY - minY + 3 /\ d.x < maxX - minX + 3}}
    IN  [grid |-> [at \in inside |-> LastLetter(adjustedWords, at[1], at[2])],
         width |-> maxX - minX + 3,
         height |-> maxY - minY + 3,
         placedWords |-> adjustedWords,
         gridSize |-> Max(maxX - minX + 3, maxY - minY + 3)]

\* the index a kept row or column gets: colMap.get(v) || 0
NewIndex(kept, v) ==
    IF v \in kept THEN Cardinality({u \in kept : u < v}) ELSE 0

\* removeEmptyRowsAndColumns(grid, placedWords) of CrosswordGA.js: the rows
\* and columns that hold a letter, renumbered in order
removeEmptyRowsAndColumns(grid, placedWords) ==
    LET keepRows == {at[2] : at \in DOMAIN grid}
        keepCols == {at[1] : at \in DOMAIN grid}
        moved == {<<NewIndex(keepCols, at[1]), NewIndex(keepRows, at[2])>> : at \in DOMAIN grid}
        origin(to) == CHOOSE at \in DOMAIN grid :
                          to = <<NewIndex(keepCols, at[1]), NewIndex(keepRows, at[2])>>
        newPlacedWords == [k \in 1..Len(placedWords) |->
            [placedWords[k] EXCEPT
                !.x = NewIndex(keepCols, @),
                !.y = NewIndex(keepRows, @),
                !.cells = [i \in 1..Len(@) |->
                              [@[i] EXCEPT !.x = NewIndex(keepCols, @),
                                           !.y = NewIndex(keepRows, @)]]]]
    IN  [grid |-> [to \in moved |-> grid[origin(to)]],
         width |-> Max(1, Cardinality(keepCols)),
         height |-> Max(1, Cardinality(keepRows)),
         placedWords |-> newPlacedWords]

\* wordsIntersect
wordsIntersect(word1, word2) ==
    /\ word1.direction # word2.direction
    /\ CellSet(word1) \cap CellSet(word2) # {}

\* The breadth-first traversal of checkConnectivity from the first word: the
\* words visited, as the closure of {1} under wordsIntersect.
Reach(placedWords) ==
    LET n == Len(placedWords)
        visited[i \in 0..n] ==
            IF i = 0 THEN {1}
            ELSE LET prev == visited[i - 1]
                 IN  prev \cup {k \in 1..n : \E v \in prev :
                                   wordsIntersect(placedWords[v], placedWords[k])}
    IN  visited[n]

\* checkConnectivity
checkConnectivity(placedWords) ==
    IF Len(placedWords) <= 1 THEN TRUE
    ELSE Cardinality(Reach(placedWords)) = Len(placedWords)

\* countBlankCells
countBlankCells(grid, gridSize) == gridSize * gridSize - Cardinality(DOMAIN grid)

\* calculateTopLeftBonus, times the 100 it is weighted with:
\* max(0, 1 - avgDistance / maxDistance) * 10 * 100, distances in hundredths.
TopLeftPoints(placedWords, gridSize) ==
    LET dists == Flatten([k \in 1..Len(placedWords) |->
                     [i \in 1..Len(placedWords[k].cells) |->
                         LET c == placedWords[k].cells[i]
                         IN  ISqrt(10000 * (c.x * c.x + c.y * c.y))]])
        maxDistance == ISqrt(10000 * 2 * gridSize * gridSize)
    IN  IF Len(dists) = 0 THEN 0
        ELSE Max(0, 1000 - (1000 * SumSeq(dists)) \div (Len(dists) * maxDistance))

\* The score of a finished layout (the arithmetic of calculateFitness).
\* C13 mutant: the score is returned as computed
Unclamped(fitness) == fitness

\* return Math.max(0, fitness) (line 157)
ClampFitness(fitness) == Max(0, fitness)

FitnessOfLayout(layout, totalWords, gridSize) ==
    LET placedWords == layout.placedWords
        wordsPlaced == Len(placedWords)
        totalIntersections == SumSeq([k \in 1..wordsPlaced |->
                                         placedWords[k].intersections])
        disconnected == IF ~checkConnectivity(placedWords) /\ wordsPlaced > 1
                        THEN 5000 ELSE 0
        blankCells == countBlankCells(layout.grid, gridSize)
        totalCells == gridSize * gridSize
        filled == totalCells - blankCells
        full == IF wordsPlaced = totalWords
                THEN 20000
                     + (15000 * filled) \div totalCells
                     - 2 * ISqrt(25 * blankCells * blankCells * blankCells)
                     + (IF 5 * filled > 3 * totalCells
                        THEN (25000 * filled) \div totalCells - 15000 ELSE 0)
                     + (20 - gridSize) * 500
                     + TopLeftPoints(placedWords, gridSize)
                ELSE 0
        wordsWithoutIntersections ==
            Cardinality({k \in 2..wordsPlaced : placedWords[k].intersections = 0})
    IN  ClampFitness(wordsPlaced * 1000 + totalIntersections * 200 - disconnected
                     + full - wordsWithoutIntersections * 3000)

\* calculateFitness(individual): individual.gridSize is never 0, so the
\* baseGridSize fallback is not taken.
calculateFitness(ws, genes, gridSize) ==
    FitnessOfLayout(Layout(ws, genes, gridSize), Len(genes), gridSize)

\* ------------------------------------------------------------------------
\* Word lists, the fitness memo and the random source
\* ------------------------------------------------------------------------

TEST == <<"T", "E", "S", "T">>

CAT == <<"C", "A", "T">>

CAR == <<"C", "A", "R">>

\* The word lists the specifications run on.
WordLists == {<<TEST>>, <<CAT, CAR>>}

MinGridSize == 10

MaxGridSize == 20

\* The sequences of at most k word indices below k, by length.
IndexSeqs(k) == UNION {[1..m -> 0..(k - 1)] : m \in 0..k}

\* The genes a layout depends on: the evaluator overwrites x, y and direction
\* of every gene before any trial (CrosswordGrid.js 267-272, 286-291, 325), so
\* a genome is evaluated through the sequence of its word indices in
\* placementOrder order.
EvalKey(genes) ==
    LET sorted == SortByKey(genes, [k \in 1..Len(genes) |-> genes[k].placementOrder])
    IN  [k \in 1..Len(genes) |-> sorted[k].wordIndex]

KeyGenes(key) ==
    [k \in 1..Len(key) |-> [wordIndex |-> key[k], x |-> 0, y |-> 0,
                            direction |-> "across", placementOrder |-> k - 1]]

\* A function as the table of its values: comparing it makes the model
\* checker enumerate it, once, instead of evaluating its body at every use.
Tabulated(f) == IF f = f THEN f ELSE f

\* calculateFitness, computed once per (word list, gridSize, evaluation order).
FitnessMemo ==
    Tabulated([ws \in WordLists |->
        [g \in MinGridSize..MaxGridSize |->
            [key \in IndexSeqs(Len(ws)) |-> calculateFitness(ws, KeyGenes(key), g)]]])

\* individual.fitness = CrosswordGrid.calculateFitness(individual, ...)
Evaluate(ws, genes, gridSize) ==
    IF /\ ws \in WordLists
       /\ gridSize \in MinGridSize..MaxGridSize
       /\ Len(genes) <= Len(ws)
    THEN FitnessMemo[ws][gridSize][EvalKey(genes)]
    ELSE calculateFitness(ws, genes, gridSize)

WithFitness(ws, ind) ==
    [ind EXCEPT !.fitness = Evaluate(ws, ind.genes, ind.gridSize)]

\* Math.random(), in hundredths, per call site: the values each call is
\* explored with.
RandomSamples ==
    [gridSize        |-> {0, 99},   \* CrosswordGrid.js 16
     swapChance      |-> {0, 99},   \* 39
     swapOffset      |-> {0, 99},   \* 40
     coord           |-> {99},      \* 48, 49, 568, 571
     direction       |-> {99},      \* 50
     crossoverGrid   |-> {0, 99},   \* 526
     shuffle         |-> {0, 99},   \* 537
     mutateGene      |-> {0, 99},   \* 560
     mutationType    |-> {0, 50, 75}, \* 564
     swapPartner     |-> {0, 99},   \* 578
     gridAdjust      |-> {0, 99},   \* 591
     adjustSign      |-> {0, 99},   \* 592
     tournament      |-> {0, 99},   \* CrosswordGA.js 108
     checkpoint      |-> {0, 99},   \* 133
     mutationCount   |-> {0, 99},   \* 139
     variationGene   |-> {0},       \* 153
     variationCoord  |-> {99},      \* 154, 155
     variationDir    |-> {99},      \* 156
     crossoverChance |-> {0, 99},   \* 221
     mutationChance  |-> {0, 99},   \* 229
     heavyChance     |-> {0, 99},   \* 234
     heavyCount      |-> {0, 99},   \* 236
     rareChance      |-> {99},      \* 240
     hybridChance    |-> {0, 99}]   \* 246

\* Math.floor(Math.random() * k)
RandFloor(site, k) == {(r * k) \div 100 : r \in RandomSamples[site]}

\* Math.random() < p, p in hundredths
RandLess(site, p) == {r < p : r \in RandomSamples[site]}

\* Math.random() > p, p in hundredths
RandGreater(site, p) == {r > p : r \in RandomSamples[site]}

\* ------------------------------------------------------------------------
\* Genomes: creation, crossover, mutation
\* ------------------------------------------------------------------------

\* C1 mutant: the filter on wordIndex keeps every gene
KeepAllGenes(genes) == genes

\* array.filter keeping the first gene of each wordIndex
\* (CrosswordGrid.js 64-71, CrosswordGA.js 187-193, 251-257)
UniqueGenes(genes) ==
    LET keep == {i \in 1..Len(genes) :
                    \A j \in 1..(i - 1) : genes[j].wordIndex # genes[i].wordIndex}
        nth(k) == CHOOSE i \in keep : Cardinality({j \in keep : j < i}) = k - 1
    IN  [k \in 1..Cardinality(keep) |-> genes[nth(k)]]

SwapAt(s, i, j) == [s EXCEPT ![i] = s[j], ![j] = s[i]]

\* placementOrder.sort(...) of createRandomIndividual: longer words first;
\* words whose lengths differ by at most one compare at random, which leaves
\* the result with the sort implementation, so every order is possible then.
LengthOrders(ws) ==
    LET n == Len(ws)
        ident == [i \in 1..n |-> i - 1]
    IN  IF \E i, j \in 1..n : i < j /\ Abs(Len(ws[i]) - Len(ws[j])) <= 1
        THEN {[i \in 1..n |-> p[i] - 1] : p \in Perms(n)}
        ELSE {SortByKey(ident, [i \in 1..n |-> -Len(ws[i])])}

\* the swap pass over placementOrder (lines 38-43), positions 1-based
SwapPass(order) ==
    LET n == Len(order)
        step(o, i) ==
            UNION {IF swap
                   THEN {SwapAt(o, i, Min(i + 1 + d, n)) : d \in RandFloor("swapOffset", 2)}
                   ELSE {o} : swap \in RandLess("swapChance", 30)}
        pass[i \in 0..Max(n - 1, 0)] ==
            IF i = 0 THEN {order} ELSE UNION {step(o, i) : o \in pass[i - 1]}
    IN  pass[Max(n - 1, 0)]

RandomDirection(site) ==
    {IF b THEN "across" ELSE "down" : b \in RandGreater(site, 50)}

\* the genes of a fresh individual, one word after the other (lines 46-61)
RandomGenes(ws, gridSize, order) ==
    LET geneOf(i) ==
            {[wordIndex |-> i - 1, x |-> x0, y |-> y0, direction |-> d,
              placementOrder |-> order[i]] :
                x0 \in RandFloor("coord", Max(1, gridSize - Len(ws[i]))),
                y0 \in RandFloor("coord", Max(1, gridSize - Len(ws[i]))),
                d \in RandomDirection("direction")}
        upto[i \in 0..Len(ws)] ==
            IF i = 0 THEN {<<>>}
            ELSE {Append(gs, g) : gs \in upto[i - 1], g \in geneOf(i)}
    IN  upto[Len(ws)]

createRandomIndividual(ws, baseGridSize) ==
    LET longestWord == Max(0, CHOOSE m \in {Len(ws[i]) : i \in 1..Len(ws)} :
                                  \A i \in 1..Len(ws) : Len(ws[i]) <= m)
        minGridSize == Max(10, longestWord + 2)
        maxGridSize == Min(20, baseGridSize + 5)
        sizes == {minGridSize + f : f \in RandFloor("gridSize", maxGridSize - minGridSize + 1)}
        orders == UNION {SwapPass(o) : o \in LengthOrders(ws)}
    IN  {[genes |-> UniqueGenes(gs), fitness |-> 0, gridSize |-> g] :
            <<g, gs>> \in UNION {{<<g0, gs0>> : gs0 \in UNION {RandomGenes(ws, g0, o) : o \in orders}} :
                                 g0 \in sizes}}

\* the shuffle of crossover (lines 536-539), positions 1-based
ShuffledGenes(allGenes) ==
    LET n == Len(allGenes)
        \* round r handles i = n - r (0-based), that is position n - r + 1
        round[r \in 0..Max(n - 1, 0)] ==
            IF r = 0 THEN {allGenes}
            ELSE UNION {{SwapAt(gs, n - r + 1, j + 1) : j \in RandFloor("shuffle", n - r + 1)} :
                        gs \in round[r - 1]}
    IN  round[Max(n - 1, 0)]

\* C29 mutant: the loop of crossover stops one gene before parent1's count
crossoverShort(parent1, parent2) ==
    LET taken(gs) == SubSeq(UniqueGenes(gs), 1,
                            Min(Len(UniqueGenes(gs)), Len(parent1.genes) - 1))
        ordered(gs) == [i \in 1..Len(gs) |-> [gs[i] EXCEPT !.placementOrder = i - 1]]
    IN  {[genes |-> ordered(taken(gs)), fitness |-> 0, gridSize |-> g] :
            gs \in ShuffledGenes(parent1.genes \o parent2.genes),
            g \in {IF b THEN parent1.gridSize ELSE parent2.gridSize :
                      b \in RandGreater("crossoverGrid", 50)}}

crossover(parent1, parent2) ==
    LET taken(gs) == SubSeq(UniqueGenes(gs), 1,
                            Min(Len(UniqueGenes(gs)), Len(parent1.genes)))
        ordered(gs) == [i \in 1..Len(gs) |-> [gs[i] EXCEPT !.placementOrder = i - 1]]
    IN  {[genes |-> ordered(taken(gs)), fitness |-> 0, gridSize |-> g] :
            gs \in ShuffledGenes(parent1.genes \o parent2.genes),
            g \in {IF b THEN parent1.gridSize ELSE parent2.gridSize :
                      b \in RandGreater("crossoverGrid", 50)}}

\* one mutation of gene i (the switch, lines 566-586)
MutateGene(ws, genes, gridSize, i, mutationType) ==
    LET room == Max(1, gridSize - Len(ws[genes[i].wordIndex + 1]))
    IN  CASE mutationType = 0 ->
                {[genes EXCEPT ![i].x = x0] : x0 \in RandFloor("coord", room)}
          [] mutationType = 1 ->
                {[genes EXCEPT ![i].y = y0] : y0 \in RandFloor("coord", room)}
          [] mutationType = 2 ->
                {[genes EXCEPT ![i].direction =
                        IF genes[i].direction = "across" THEN "down" ELSE "across"]}
          [] OTHER ->
                IF Len(genes) > 1
                THEN {IF i # j + 1
                      THEN [genes EXCEPT ![i].placementOrder = genes[j + 1].placementOrder,
                                         ![j + 1].placementOrder = genes[i].placementOrder]
                      ELSE genes : j \in RandFloor("swapPartner", Len(genes))}
                ELSE {genes}

\* mutationRate in hundredths
mutate(ws, individual, mutationRate) ==
    LET step(gs, i) ==
            UNION {IF hit0
                   THEN UNION {MutateGene(ws, gs, individual.gridSize, i, t) :
                                   t \in RandFloor("mutationType", 4)}
                   ELSE {gs} : hit0 \in RandLess("mutateGene", mutationRate)}
        upto[i \in 0..Len(individual.genes)] ==
            IF i = 0 THEN {individual.genes}
            ELSE UNION {step(gs, i) : gs \in upto[i - 1]}
        sizes == UNION {IF adj
                        THEN {Max(10, Min(20, individual.gridSize + (IF up THEN 1 ELSE -1))) :
                                 up \in RandGreater("adjustSign", 50)}
                        ELSE {individual.gridSize} : adj \in RandLess("gridAdjust", 10)}
    IN  {[individual EXCEPT !.genes = gs, !.gridSize = g] :
            gs \in upto[Len(individual.genes)], g \in sizes}

\* ------------------------------------------------------------------------
\* CrosswordGeneticAlgorithm
\* ------------------------------------------------------------------------

\* a configuration field that was not given
Absent == -1

\* config.field || default : undefined and 0 are both falsy
OrDefault(v, default) == IF v = Absent \/ v = 0 THEN default ELSE v

\* bestEver = null
Null == [null |-> TRUE]

\* the constructor; rates in hundredths
CrosswordGeneticAlgorithm(config) ==
    [populationSize |-> OrDefault(config.populationSize, 100),
     generations    |-> OrDefault(config.generations, 200),
     mutationRate   |-> OrDefault(config.mutationRate, 30),
     crossoverRate  |-> OrDefault(config.crossoverRate, 80),
     elitismCount   |-> OrDefault(config.elitismCount, 5),
     gridSize       |-> OrDefault(config.gridSize, 15),
     population |-> <<>>,
     currentGeneration |-> 0,
     bestEver |-> Null,
     stagnationCounter |-> 0,
     lastBestFitness |-> 0,
     explorationMode |-> FALSE,
     noImprovementCounter |-> 0,
     bestCheckpoints |-> <<>>]

sortPopulation(population) ==
    SortByKey(population, [k \in 1..Len(population) |-> -population[k].fitness])

CheckpointGap == 1000

MaxCheckpoints == 5

StagnationBand == 10

ExplorationEnter == 30

ExplorationLeave == 5

\* !this.bestEver || this.population[0].fitness > this.bestEver.fitness (line 64)
ImprovesBest(bestEver, top) == bestEver = Null \/ top.fitness > bestEver.fitness

\* C3 mutant: exploration is entered one generation later
ExplorationLate(noImprovement, explorationMode) ==
    IF noImprovement > ExplorationEnter + 1 THEN TRUE
    ELSE IF noImprovement < ExplorationLeave THEN FALSE
    ELSE explorationMode

\* the two thresholds on noImprovementCounter (lines 90-95)
ExplorationAfter(noImprovement, explorationMode) ==
    IF noImprovement > ExplorationEnter THEN TRUE
    ELSE IF noImprovement < ExplorationLeave THEN FALSE
    ELSE explorationMode

\* the body of updateBest for the candidate top and the outcome of line 64
UpdateWith(ga, top, improved) ==
    LET checkpoint ==
            \/ ga.bestCheckpoints = <<>>
            \/ top.fitness > ga.bestCheckpoints[Len(ga.bestCheckpoints)].fitness + CheckpointGap
        pushed == Append(ga.bestCheckpoints, top)
        checkpoints ==
            IF improved /\ checkpoint
            THEN IF Len(pushed) > MaxCheckpoints THEN Tail(pushed) ELSE pushed
            ELSE ga.bestCheckpoints
        noImprovement == IF improved THEN 0 ELSE ga.noImprovementCounter + 1
    IN  [ga EXCEPT
            !.bestEver = IF improved THEN top ELSE @,
            !.bestCheckpoints = checkpoints,
            !.noImprovementCounter = noImprovement,
            !.stagnationCounter =
                IF Abs(ga.population[1].fitness - ga.lastBestFitness) < StagnationBand
                THEN @ + 1 ELSE 0,
            !.lastBestFitness = ga.population[1].fitness,
            !.explorationMode = ExplorationAfter(noImprovement, @)]

\* C2 mutant: the last genome of the population is taken for the best one
\* and replaces bestEver without the comparison
updateBestOfLast(ga) ==
    UpdateWith(ga, ga.population[Len(ga.population)], TRUE)

updateBest(ga) ==
    UpdateWith(ga, ga.population[1], ImprovesBest(ga.bestEver, ga.population[1]))

\* a fresh individual with its fitness (CrosswordGA.js 34-45, 201-203)
FreshIndividuals(ws, ga) ==
    {WithFitness(ws, ind) : ind \in {f \in createRandomIndividual(ws, ga.gridSize) :
                                        Len(f.genes) = Len(ws)}}

\* the end of initialize (lines 47-49) for the individuals pop it has made
InitializeTo(ga, pop) ==
    updateBest([ga EXCEPT !.bestEver = Null,
                          !.population = sortPopulation(pop),
                          !.currentGeneration = 0])

\* initialize(): populationSize valid fresh individuals, sorted; the loop
\* asks again for an individual that is not valid
initialize(ws, ga) ==
    {InitializeTo(ga, pop) :
        pop \in [1..ga.populationSize -> FreshIndividuals(ws, ga)]}

TournamentSize == 5

selectParent(ga) ==
    LET winner(t) ==
            LET best == CHOOSE f \in {ga.population[t[k] + 1].fitness : k \in 1..TournamentSize} :
                            \A k \in 1..TournamentSize : ga.population[t[k] + 1].fitness <= f
                first == CHOOSE k \in 1..TournamentSize :
                            /\ ga.population[t[k] + 1].fitness = best
                            /\ \A j \in 1..(k - 1) : ga.population[t[j] + 1].fitness # best
            IN  ga.population[t[first] + 1]
    IN  {winner(t) : t \in [1..TournamentSize -> RandFloor("tournament", Len(ga.population))]}

\* the sequences of k elements of S
SeqsOf(S, k) == [1..k -> S]

\* applying mutate k times, each time to the result of the last
MutateTimes(ws, individual, rate, k) ==
    LET after[i \in 0..k] ==
            IF i = 0 THEN {individual}
            ELSE UNION {mutate(ws, ind, rate) : ind \in after[i - 1]}
    IN  after[k]

VariationCount == 5

RepositionRounds == 3

\* the variation that is pushed (CrosswordGA.js 144-162) for the variation
\* the shuffle of line 145 starts with
VariationsOf(ws, gridSize, variation) ==
    LET reorder(gs) == [i \in 1..Len(gs) |-> [gs[i] EXCEPT !.placementOrder = i - 1]]
        reposition(gs) ==
            {[gs EXCEPT ![p + 1].x = x0, ![p + 1].y = y0, ![p + 1].direction = d] :
                p \in RandFloor("variationGene", Len(gs)),
                x0 \in RandFloor("variationCoord", gridSize),
                y0 \in RandFloor("variationCoord", gridSize),
                d \in {IF b THEN "across" ELSE "down" : b \in RandLess("variationDir", 50)}}
        rounds(gs) ==
            LET after[i \in 0..RepositionRounds] ==
                    IF i = 0 THEN {gs}
                    ELSE UNION {reposition(g) : g \in after[i - 1]}
            IN  after[RepositionRounds]
    IN  {WithFitness(ws, [variation EXCEPT !.genes = gs]) :
            gs \in UNION {rounds(reorder(sh)) : sh \in Shuffles(variation.genes)}}

\* one backtracking variation of a checkpoint (CrosswordGA.js 133-159). The
\* results of the calls of CrosswordGrid.mutate at line 141 are not assigned:
\* mutate works on a copy, so the variation is the checkpoint's copy when the
\* shuffle starts.
Variations(ws, ga) ==
    UNION {VariationsOf(ws, ga.gridSize, ga.bestCheckpoints[c + 1]) :
              c \in RandFloor("checkpoint", Len(ga.bestCheckpoints))}

\* one pass of the fill loop up to the validity test (lines 217-256)
Offspring(ws, ga) ==
    LET rate == ga.gridSize * 100
        bred == UNION {UNION {IF cross THEN crossover(parent1, parent2) ELSE {parent1} :
                                 cross \in RandLess("crossoverChance", ga.crossoverRate)} :
                          parent1 \in selectParent(ga), parent2 \in selectParent(ga)}
        baseMutationRate == IF ga.explorationMode THEN ga.mutationRate * 2 ELSE ga.mutationRate
        mutated == UNION {UNION {IF m THEN mutate(ws, o, rate) ELSE {o} :
                                    m \in RandLess("mutationChance", baseMutationRate)} :
                             o \in bred}
        rare(o) == UNION {IF m THEN mutate(ws, o, rate) ELSE {o} :
                             m \in RandLess("rareChance", 1)}
        heavy(o) ==
            IF ga.explorationMode
            THEN UNION {IF h
                        THEN UNION {MutateTimes(ws, o, rate, 2 + k) :
                                       k \in RandFloor("heavyCount", 2)}
                        ELSE rare(o) : h \in RandLess("heavyChance", 30)}
            ELSE rare(o)
        hybrid(o) ==
            IF ga.explorationMode /\ ga.bestEver # Null
            THEN UNION {IF h THEN crossover(o, ga.bestEver) ELSE {o} :
                           h \in RandLess("hybridChance", 10)}
            ELSE {o}
        raw == UNION {hybrid(o) : o \in UNION {heavy(m) : m \in mutated}}
    IN  {[o EXCEPT !.genes = UniqueGenes(o.genes)] : o \in raw}

\* the offspring the fill loop adds: valid ones, with their fitness
ValidOffspring(ws, ga) ==
    {WithFitness(ws, o) : o \in {v \in Offspring(ws, ga) : Len(v.genes) = Len(ws)}}

DiversityStagnation == 15

DiversityPeriod == 10

ExplorationCeiling == 50

\* this.bestCheckpoints.sort(() => Math.random() - 0.5) when
\* noImprovementCounter > 50 (lines 209-214): the orders the list may get
CheckpointOrders(ga) ==
    IF ga.noImprovementCounter > ExplorationCeiling
    THEN Shuffles(ga.bestCheckpoints) ELSE {ga.bestCheckpoints}

\* C25 mutant: the exploration reset sets noImprovementCounter to 0
EvolveToRestarted(ga, newPopulation, cps) ==
    LET inject == \/ ga.stagnationCounter > DiversityStagnation
                  \/ (ga.explorationMode /\ ga.currentGeneration % DiversityPeriod = 0)
        reset == ga.noImprovementCounter > ExplorationCeiling
    IN  [updateBest([ga EXCEPT
                        !.stagnationCounter = IF inject THEN 0 ELSE @,
                        !.noImprovementCounter = IF reset THEN 0 ELSE @,
                        !.bestCheckpoints = cps,
                        !.population = sortPopulation(newPopulation)])
            EXCEPT !.currentGeneration = @ + 1]

\* the end of evolve (lines 197-268) for the population newPopulation the
\* step has built and the order cps of the checkpoints: the counters are
\* reset, the population is sorted, updateBest runs, the generation counts
EvolveTo(ga, newPopulation, cps) ==
    LET inject == \/ ga.stagnationCounter > DiversityStagnation
                  \/ (ga.explorationMode /\ ga.currentGeneration % DiversityPeriod = 0)
        reset == ga.noImprovementCounter > ExplorationCeiling
    IN  [updateBest([ga EXCEPT
                        !.stagnationCounter = IF inject THEN 0 ELSE @,
                        !.noImprovementCounter = IF reset THEN ExplorationEnter ELSE @,
                        !.bestCheckpoints = cps,
                        !.population = sortPopulation(newPopulation)])
            EXCEPT !.currentGeneration = @ + 1]

evolve(ws, ga) ==
    LET kept == IF ga.bestEver # Null THEN <<ga.bestEver>> ELSE <<>>
        variations ==
            IF ga.explorationMode /\ Len(ga.bestCheckpoints) > 0
            THEN SeqsOf(Variations(ws, ga), VariationCount)
            ELSE {<<>>}
        eliteCount == IF ga.explorationMode THEN ga.elitismCount \div 2 ELSE ga.elitismCount
        elites == [i \in 1..Min(eliteCount, Len(ga.population)) |->
                      [ga.population[i] EXCEPT !.genes = UniqueGenes(@)]]
        inject == \/ ga.stagnationCounter > DiversityStagnation
                  \/ (ga.explorationMode /\ ga.currentGeneration % DiversityPeriod = 0)
        diversity ==
            IF inject
            THEN SeqsOf(FreshIndividuals(ws, ga), IF ga.explorationMode THEN 10 ELSE 5)
            ELSE {<<>>}
        filled(sofar) ==
            IF Len(sofar) < ga.populationSize
            THEN {sofar \o off : off \in SeqsOf(ValidOffspring(ws, ga), ga.populationSize - Len(sofar))}
            ELSE {sofar}
        populations ==
            UNION {filled(kept \o v \o elites \o f) : v \in variations, f \in diversity}
    IN  {EvolveTo(ga, newPopulation, cps) :
            newPopulation \in populations, cps \in CheckpointOrders(ga)}

CompactCount == 10

calculateMinGridSize(ws, individual) ==
    LET len(g) == Len(ws[g.wordIndex + 1])
        spanX(g) == IF g.direction = "across" THEN g.x + len(g) ELSE g.x + 1
        spanY(g) == IF g.direction = "across" THEN g.y + 1 ELSE g.y + len(g)
        reach[i \in 0..Len(individual.genes)] ==
            IF i = 0 THEN <<0, 0>>
            ELSE <<Max(reach[i - 1][1], spanX(individual.genes[i])),
                   Max(reach[i - 1][2], spanY(individual.genes[i]))>>
        maxX == reach[Len(individual.genes)][1]
        maxY == reach[Len(individual.genes)][2]
    IN  Max(Max(maxX + 1, maxY + 1), 10)

shiftToTopLeft(individual) ==
    LET low[i \in 0..Len(individual.genes)] ==
            IF i = 0 THEN <<individual.gridSize, individual.gridSize>>
            ELSE <<Min(low[i - 1][1], individual.genes[i].x),
                   Min(low[i - 1][2], individual.genes[i].y)>>
        minX == low[Len(individual.genes)][1]
        minY == low[Len(individual.genes)][2]
    IN  IF minX > 0 \/ minY > 0
        THEN [individual EXCEPT !.genes =
                [i \in 1..Len(@) |-> [@[i] EXCEPT !.x = @ - minX, !.y = @ - minY]]]
        ELSE individual

compactPopulation(ws, ga) ==
    LET compact(individual) ==
            LET minGridSize == calculateMinGridSize(ws, individual)
                shrunk == IF minGridSize < individual.gridSize
                          THEN [individual EXCEPT !.gridSize = minGridSize]
                          ELSE individual
            IN  WithFitness(ws, shiftToTopLeft(shrunk))
    IN  [ga EXCEPT !.population =
            sortPopulation([i \in 1..Len(@) |->
                IF i <= CompactCount THEN compact(@[i]) ELSE @[i]])]

\* C6 mutant: the snapshot carries the generation number before the increment
StatisticsBehind(ga, compactionPhase) ==
    [generation |-> ga.currentGeneration - 1,
     bestFitness |-> ga.bestEver.fitness,
     currentBestFitness |-> ga.population[1].fitness,
     bestIndividual |-> ga.bestEver,
     populationFitness |-> {ga.population[k].fitness : k \in 1..Len(ga.population)},
     compactionPhase |-> compactionPhase,
     explorationMode |-> ga.explorationMode,
     noImprovementCounter |-> ga.noImprovementCounter]

\* the statistics run() hands to its callback (lines 296-307), and the
\* fitness values of the population handed over with them
Statistics(ga, compactionPhase) ==
    [generation |-> ga.currentGeneration,
     bestFitness |-> IF ga.bestEver # Null THEN ga.bestEver.fitness
                     ELSE ga.population[1].fitness,
     currentBestFitness |-> ga.population[1].fitness,
     bestIndividual |-> IF ga.bestEver # Null THEN ga.bestEver ELSE ga.population[1],
     populationFitness |-> {ga.population[k].fitness : k \in 1..Len(ga.population)},
     compactionPhase |-> compactionPhase,
     explorationMode |-> ga.explorationMode,
     noImprovementCounter |-> ga.noImprovementCounter]

CompactionGenerations == 3

\* one pass of the loop of run() up to the call of the callback
\* (lines 283-293): the GA after it, and whether it compacted
LoopBody(ws, ga, gen) ==
    {IF gen >= ga.generations - CompactionGenerations
     THEN compactPopulation(ws, evolved)
     ELSE evolved : evolved \in evolve(ws, ga)}

InCompaction(ga, gen, compactionPhase) ==
    compactionPhase \/ gen >= ga.generations - CompactionGenerations

\* ------------------------------------------------------------------------
\* State
\* ------------------------------------------------------------------------

VARIABLES
    words,      \* the word list the GA objects are constructed with
    runs,       \* the GA objects with the position of their run() call
    app,        \* the state of the App component (the coordinator)
    evaluation  \* the last call of the evaluator: its genome and its results

vars == <<words, runs, app, evaluation>>

\* no call of the evaluator outside the runs
NoEvaluation == [called |-> FALSE]

\* let gridSize = $state(14) (part_000 28)
InitialGridSize == 14

\* the App component before any evolution is started (part_000 6-28)
AppInit ==
    [isRunning |-> FALSE,
     activeEvolutions |-> <<>>,
     bestSolutionDuringRun |-> Null,
     absoluteBestEver |-> Null,
     workerProgress |-> <<>>,
     gridSize |-> InitialGridSize,
     bestFitness |-> 0,
     sessions |-> <<>>,
     lastShare |-> Null]

\* a GA object whose run() is not yet called; config is the configuration
\* the constructor was given; delivered, stats, returned,
\* cancelledAt, sinceImprovement and wasExploring record what run() did
NewRun(config) ==
    [config |-> config,
     ga |-> CrosswordGeneticAlgorithm(config),
     gen |-> 0,
     compactionPhase |-> FALSE,
     pc |-> "constructed",
     delivered |-> <<>>,
     stats |-> Null,
     returned |-> Null,
     cancelledAt |-> 0,
     sinceImprovement |-> 0,
     wasExploring |-> FALSE]

\* C7 mutant: the answer of the callback is not looked at
StopsNever(shouldContinue) == FALSE

\* shouldContinue === false (line 310)
StopsRun(shouldContinue) == shouldContinue = FALSE

\* the run after one pass of the loop of run() whose callback answered
\* shouldContinue: ga is the GA object after evolve and compaction
AfterPass(run, ga, shouldContinue) ==
    LET phase == InCompaction(run.ga, run.gen, run.compactionPhase)
        stats == Statistics(ga, phase)
    IN  [run EXCEPT
            !.ga = ga,
            !.compactionPhase = phase,
            !.stats = stats,
            !.delivered = Append(@, stats.generation),
            !.sinceImprovement =
                IF ga.bestEver.fitness > run.ga.bestEver.fitness THEN 0 ELSE @ + 1,
            !.wasExploring = run.ga.explorationMode,
            !.gen = IF StopsRun(shouldContinue) THEN @ ELSE @ + 1,
            !.pc = IF StopsRun(shouldContinue) THEN "returned" ELSE "loop",
            !.cancelledAt = IF @ = 0 /\ ~shouldContinue THEN stats.generation ELSE @,
            !.returned = IF StopsRun(shouldContinue) THEN ga.bestEver ELSE @]

\* ------------------------------------------------------------------------
\* A single run under a callback that may cancel
\* ------------------------------------------------------------------------

Generations == 4

PairGenerations == 1

LongGenerations == 33

Configuration(populationSize, generations, elitismCount) ==
    [populationSize |-> populationSize, generations |-> generations,
     mutationRate |-> 30, crossoverRate |-> 80,
     elitismCount |-> elitismCount, gridSize |-> 10]

Scenarios ==
    {[words |-> <<TEST>>, config |-> Configuration(3, Generations, 1)],
     [words |-> <<TEST>>, config |-> Configuration(3, Generations, Absent)],
     [words |-> <<CAT, CAR>>, config |-> Configuration(3, PairGenerations, 1)],
     [words |-> <<TEST>>,
      config |-> [Configuration(3, PairGenerations, 0) EXCEPT
                     !.mutationRate = 0, !.crossoverRate = 0]]}

LongScenarios ==
    {[words |-> <<TEST>>, config |-> Configuration(2, LongGenerations, 1)]}

Init ==
    \E sc \in Scenarios :
        /\ words = sc.words
        /\ runs = <<NewRun(sc.config)>>
        /\ app = AppInit
        /\ evaluation = NoEvaluation

InitLong ==
    \E sc \in LongScenarios :
        /\ words = sc.words
        /\ runs = <<NewRun(sc.config)>>
        /\ app = AppInit
        /\ evaluation = NoEvaluation

\* run(): initialize() (line 278)
Initialize ==
    /\ runs[1].pc = "constructed"
    /\ \E ga \in initialize(words, runs[1].ga) :
          runs' = [runs EXCEPT ![1].ga = ga, ![1].pc = "loop"]
    /\ UNCHANGED <<words, app, evaluation>>

\* one pass of the loop (lines 282-318): evolve, compaction, the callback
\* and its answer
Generation ==
    /\ runs[1].pc = "loop"
    /\ runs[1].gen < runs[1].ga.generations
    /\ \E ga \in LoopBody(words, runs[1].ga, runs[1].gen), shouldContinue \in BOOLEAN :
          runs' = [runs EXCEPT ![1] = AfterPass(@, ga, shouldContinue)]
    /\ UNCHANGED <<words, app, evaluation>>

\* the loop is over: return this.bestEver (line 320)
Return ==
    /\ runs[1].pc = "loop"
    /\ runs[1].gen >= runs[1].ga.generations
    /\ runs' = [runs EXCEPT ![1].pc = "returned", ![1].returned = runs[1].ga.bestEver]
    /\ UNCHANGED <<words, app, evaluation>>

\* a run over one long word, for each base gridSize of the configuration
LongWordLength == 19

WideGenerations == 2

LongWord == [i \in 1..LongWordLength |-> "A"]

WideScenarios ==
    {[words |-> <<LongWord>>,
      config |-> [Configuration(3, WideGenerations, 1) EXCEPT !.gridSize = base]] :
        base \in {10, 15, 20}}

InitWide ==
    \E sc \in WideScenarios :
        /\ words = sc.words
        /\ runs = <<NewRun(sc.config)>>
        /\ app = AppInit
        /\ evaluation = NoEvaluation

Next ==
    \/ Initialize
    \/ Generation
    \/ Return

Spec == Init /\ [][Next]_vars

SpecLong == InitLong /\ [][Next]_vars

SpecWide == InitWide /\ [][Next]_vars

\* ------------------------------------------------------------------------
\* The App component: parallel evolutions (part_000)
\* ------------------------------------------------------------------------
\* app.sessions holds the calls of startEvolution that have passed the
\* isRunning test: the runs each one awaits (Promise.all), how it ended and
\* what it chose to display.  app.lastShare records the last sharing of a
\* new session best: who was to receive it and who did.  The grid and the
\* placed words a solution carries for display are not part of the state.
\* A run waits in pc = "loop" for its timer; the callback's own setTimeout(0)
\* (line 268) only makes that wait longer.

MaxSessions == 2

ParallelRuns == 2

AppGenerations == 2

\* the configuration startEvolution builds from the component's fields
\* (lines 103-109): no elitismCount
AppConfig(generations, gridSize) ==
    [populationSize |-> 2, generations |-> generations, mutationRate |-> 85,
     crossoverRate |-> 50, elitismCount |-> Absent, gridSize |-> gridSize]

\* the methods class CrosswordGeneticAlgorithm defines (CrosswordGA.js)
Methods ==
    {"initialize", "sortPopulation", "updateBest", "calculateAverageFitness",
     "selectParent", "evolve", "run", "countPlacedWords", "compactPopulation",
     "calculateMinGridSize", "shiftToTopLeft", "getBestGrid",
     "removeEmptyRowsAndColumns"}

\* new CrosswordGeneticAlgorithm(words, config) in runSingleEvolution
NewEvolution(config, session, runId) ==
    [config |-> config,
     ga |-> CrosswordGeneticAlgorithm(config),
     gen |-> 0,
     compactionPhase |-> FALSE,
     pc |-> "constructed",
     delivered |-> <<>>,
     stats |-> Null,
     returned |-> Null,
     cancelledAt |-> 0,
     sinceImprovement |-> 0,
     wasExploring |-> FALSE,
     session |-> session,
     runId |-> runId,
     runBestSolution |-> Null,
     received |-> <<>>,
     stopSignalled |-> FALSE,
     passesAfterStop |-> 0,
     reportsAfterStop |-> 0]

\* getBestGrid(false) after initialize: the fitness of bestEver and
\* gridSize, the number of rows of its grid without the empty ones
getBestGrid(ws, ga) ==
    LET compacted(layout) == removeEmptyRowsAndColumns(layout.grid, layout.placedWords)
    IN  [fitness |-> ga.bestEver.fitness,
         gridSize |-> compacted(Layout(ws, ga.bestEver.genes,
                                       OrDefault(ga.bestEver.gridSize, ga.gridSize))).height]

\* runBestSolution as built at lines 192-201; genesOf names the run whose
\* bestEver.genes array the solution holds (0: an array of its own)
Solution(ws, ga, stats, runId, r) ==
    [gridSize |-> getBestGrid(ws, ga).gridSize,
     fitness |-> stats.bestFitness, runId |-> runId,
     genes |-> stats.bestIndividual.genes, genesOf |-> r]

\* workerProgress[key] = value on the object workerProgress
SetProgress(workerProgress, key, value) ==
    [k \in DOMAIN workerProgress \cup {key} |->
        IF k = key THEN value ELSE workerProgress[k]]

\* the message of lines 236-240: genes is stats.bestIndividual.genes itself,
\* the array of the sending run's bestEver (genesOf), not a copy of it
GlobalBestData(bestSolutionDuringRun, stats, r) ==
    [genes |-> stats.bestIndividual.genes,
     fitness |-> bestSolutionDuringRun.fitness,
     gridSize |-> stats.bestIndividual.gridSize,
     genesOf |-> r]

\* The callback of runSingleEvolution (lines 178-271) for the run at index r
\* up to its return or its first throw: the app and the run after it, and
\* how it ended ("continue", "stop" or "throw").  Calling a method the class
\* does not define throws a TypeError.
Report(ws, a, run, r) ==
    LET stats == run.stats
        defined == "updateInjectionTracking" \in Methods
        others == {k \in 1..Len(a.activeEvolutions) : k - 1 # run.runId}
        reported(solution) ==
            [run EXCEPT !.runBestSolution = solution,
                        !.reportsAfterStop = IF run.stopSignalled THEN @ + 1 ELSE @]
        progress == [a EXCEPT !.workerProgress =
                        SetProgress(@, run.runId,
                                    [generation |-> stats.generation,
                                     bestFitness |-> stats.bestFitness,
                                     injections |-> 0])]
        shared(solution) ==
            [progress EXCEPT
                !.bestSolutionDuringRun = solution,
                !.bestFitness = stats.bestFitness,
                !.absoluteBestEver =
                    IF @ = Null \/ solution.fitness > @.fitness
                    THEN [solution EXCEPT !.genesOf = 0] ELSE @,
                !.gridSize = solution.gridSize,
                !.lastShare =
                    [from |-> r,
                     owed |-> {a.activeEvolutions[k] : k \in others},
                     delivered |-> IF defined
                                   THEN {a.activeEvolutions[k] : k \in others}
                                   ELSE {},
                     message |-> GlobalBestData(solution, stats, r)]]
        tracked(solution) ==
            IF \/ a.bestSolutionDuringRun = Null
               \/ stats.bestFitness > a.bestSolutionDuringRun.fitness
            THEN [app |-> shared(solution), run |-> reported(solution),
                  outcome |-> IF others # {} /\ ~defined THEN "throw" ELSE "continue"]
            ELSE [app |-> progress, run |-> reported(solution),
                  outcome |-> IF ~defined THEN "throw" ELSE "continue"]
    IN  IF ~a.isRunning
        THEN [app |-> a, run |-> run, outcome |-> "stop"]
        ELSE tracked(IF \/ run.runBestSolution = Null
                        \/ stats.bestFitness > run.runBestSolution.fitness
                     THEN Solution(ws, run.ga, stats, run.runId, r)
                     ELSE run.runBestSolution)

\* One pass of the loop of run() for the run at index r, from evolve to the
\* await after the callback: ga is the GA object after evolve and compaction.
Pass(ws, a, run, r, ga) ==
    LET counted == [run EXCEPT !.passesAfterStop = IF run.stopSignalled THEN @ + 1 ELSE @]
        ended(rep) ==
            [app |-> rep.app,
             run |-> CASE rep.outcome = "continue" -> rep.run
                       [] rep.outcome = "stop" -> AfterPass(counted, ga, FALSE)
                       [] rep.outcome = "throw" ->
                              [rep.run EXCEPT !.pc = "failed", !.gen = run.gen]]
    IN  ended(Report(ws, a, AfterPass(counted, ga, TRUE), r))

\* The promise of a startEvolution call (lines 119-168) once the promises of
\* its runs have changed: Promise.all rejects with the first failed run and
\* resolves when every run has returned; then the winner is displayed.
Settle(a, rs, s) ==
    LET session == a.sessions[s]
        mine == session.runs
        results == [k \in 1..Len(mine) |-> rs[mine[k]].runBestSolution]
        reduce[k \in 0..Len(mine)] ==
            IF k = 0 THEN Null
            ELSE IF reduce[k - 1] = Null
                    \/ (results[k] # Null /\ results[k].fitness > reduce[k - 1].fitness)
                 THEN results[k] ELSE reduce[k - 1]
        bestFinalResult == reduce[Len(mine)]
        bestToDisplay == IF a.absoluteBestEver # Null THEN a.absoluteBestEver
                         ELSE bestFinalResult
    IN  IF session.state # "awaiting" THEN a
        ELSE IF \E k \in 1..Len(mine) : rs[mine[k]].pc = "failed"
        THEN [a EXCEPT !.sessions[s].state = "failed", !.isRunning = FALSE]
        ELSE IF \A k \in 1..Len(mine) : rs[mine[k]].pc = "returned"
        THEN [a EXCEPT !.sessions[s].state = "displayed",
                       !.sessions[s].results = results,
                       !.sessions[s].absoluteBestEver = a.absoluteBestEver,
                       !.sessions[s].selected = bestToDisplay,
                       !.gridSize = IF bestToDisplay # Null THEN bestToDisplay.gridSize ELSE @,
                       !.bestFitness = IF bestToDisplay # Null THEN bestToDisplay.fitness ELSE @,
                       !.isRunning = FALSE]
        ELSE a

\* The loop of startEvolution over the parallel runs (lines 114-119): each
\* runSingleEvolution call constructs its GA object, appends it to
\* activeEvolutions and executes run() up to its first await, that is
\* initialize, the first pass of the loop and the callback.  The set of the
\* states [app, runs] after n such calls.
Launch(ws, a, rs, s, n, config) ==
    LET started(st, i, ga0, ga1) ==
            LET r == Len(st.runs) + 1
                passed(p) == [app |-> p.app, runs |-> Append(st.runs, p.run)]
            IN  passed(Pass(ws,
                            [st.app EXCEPT
                                !.workerProgress =
                                    SetProgress(@, i, [generation |-> 0, bestFitness |-> 0]),
                                !.activeEvolutions = Append(@, r),
                                !.sessions[s].runs = Append(@, r)],
                            [NewEvolution(config, s, i) EXCEPT !.ga = ga0, !.pc = "loop"],
                            r, ga1))
        launched[i \in 0..n] ==
            IF i = 0 THEN {[app |-> a, runs |-> rs]}
            ELSE UNION {{started(st, i - 1, ga0, ga1) : ga1 \in LoopBody(ws, ga0, 0)} :
                        st \in launched[i - 1],
                        ga0 \in initialize(ws, CrosswordGeneticAlgorithm(config))}
    IN  launched[n]

InitApp ==
    /\ words = <<TEST>>
    /\ runs = <<>>
    /\ app = AppInit
    /\ evaluation = NoEvaluation

\* startEvolution (lines 73-169) up to its await of Promise.all, and the
\* promise reactions that follow before any timer: a run whose first
\* callback threw has rejected, and so has Promise.all.  parallelRuns,
\* generations and gridSize are the fields the user can edit while nothing
\* runs (inputs bound at lines 361-422); gridSize is as the last display
\* left it or typed back to its initial value.
StartEvolution ==
    /\ ~app.isRunning
    /\ Len(app.sessions) < MaxSessions
    /\ \E parallelRuns \in 1..ParallelRuns, generations \in 1..AppGenerations,
          gridSize \in {app.gridSize, InitialGridSize} :
          \E st \in Launch(words,
                           [app EXCEPT
                               !.gridSize = gridSize,
                               !.bestFitness = 0,
                               !.bestSolutionDuringRun = Null,
                               !.absoluteBestEver = Null,
                               !.workerProgress = <<>>,
                               !.isRunning = TRUE,
                               !.activeEvolutions = <<>>,
                               !.sessions = Append(@, [runs |-> <<>>, state |-> "awaiting",
                                                       results |-> <<>>,
                                                       absoluteBestEver |-> Null,
                                                       selected |-> Null])],
                           runs, Len(app.sessions) + 1, parallelRuns,
                           AppConfig(generations, gridSize)) :
              /\ runs' = st.runs
              /\ app' = Settle(st.app, st.runs, Len(app.sessions) + 1)
    /\ UNCHANGED <<words, evaluation>>

\* the timer of run() fires for the run at index r (line 317): the loop is
\* over and run() returns, or the next pass and its callback execute
RunStep(r) ==
    /\ runs[r].pc = "loop"
    /\ IF runs[r].gen >= runs[r].ga.generations
       THEN /\ runs' = [runs EXCEPT ![r].pc = "returned",
                                    ![r].returned = runs[r].ga.bestEver]
            /\ app' = Settle(app, runs', runs[r].session)
       ELSE \E ga \in LoopBody(words, runs[r].ga, runs[r].gen) :
               \E p \in {Pass(words, app, runs[r], r, ga)} :
                   /\ runs' = [runs EXCEPT ![r] = p.run]
                   /\ app' = Settle(p.app, runs', runs[r].session)
    /\ UNCHANGED <<words, evaluation>>

\* stopEvolution (lines 276-280); stopSignalled marks the runs that were
\* still in their loop when it was called
StopEvolution ==
    /\ app.isRunning \/ app.activeEvolutions # <<>>
    /\ app' = [app EXCEPT !.isRunning = FALSE, !.activeEvolutions = <<>>]
    /\ runs' = [r \in DOMAIN runs |->
                   IF runs[r].pc = "loop"
                   THEN [runs[r] EXCEPT !.stopSignalled = TRUE] ELSE runs[r]]
    /\ UNCHANGED <<words, evaluation>>

NextApp ==
    \/ StartEvolution
    \/ \E r \in DOMAIN runs : RunStep(r)
    \/ StopEvolution

SpecApp == InitApp /\ [][NextApp]_vars

\* ------------------------------------------------------------------------
\* The evaluator called on its own
\* ------------------------------------------------------------------------

ABCD == <<"A", "B", "C", "D">>

EFGH == <<"E", "F", "G", "H">>

EvalWordLists == {<<TEST>>, <<CAT, CAR>>, <<ABCD, EFGH>>}

\* the positions a gene may have stored
MaxStoredCoord == 3

StoredCoords == {0, MaxStoredCoord}

\* the genomes of a word list: one gene per word, any stored position and
\* direction, any placement order
StoredGenomes(ws) ==
    LET n == Len(ws)
        placed == [1..n -> StoredCoords \X StoredCoords \X {"across", "down"}]
    IN  {[i \in 1..n |-> [wordIndex |-> i - 1, x |-> at[i][1], y |-> at[i][2],
                          direction |-> at[i][3], placementOrder |-> order[i] - 1]] :
            at \in placed, order \in Perms(n)}

\* a call that has not been made
NotDone == [done |-> FALSE]

InitEval ==
    /\ words \in EvalWordLists
    /\ runs = <<>>
    /\ app = AppInit
    /\ evaluation = NoEvaluation

\* CrosswordGrid.calculateFitness(individual) called once on a genome of the
\* word list: the placed words and the grid of its loop, and the fitness it
\* returns
EvaluateGenome ==
    /\ ~evaluation.called
    /\ \E gridSize \in MinGridSize..MaxGridSize, genes \in StoredGenomes(words) :
          LET result(layout) ==
                  [called |-> TRUE, given |-> genes, genes |-> genes,
                   gridSize |-> gridSize,
                   placedWords |-> layout.placedWords, grid |-> layout.grid,
                   fitness |-> FitnessOfLayout(layout, Len(genes), gridSize),
                   compact |-> NotDone, best |-> NotDone,
                   again |-> NotDone, trial |-> NotDone]
          IN  evaluation' = result(Layout(words, genes, gridSize))
    /\ UNCHANGED <<words, runs, app>>

\* getGrid(individual) on the evaluated genome: the placement loop, then
\* createCompactGrid when a word was placed
GetGrid ==
    /\ evaluation.called
    /\ ~evaluation.compact.done
    /\ ~evaluation.again.done
    /\ LET shown(layout) ==
               IF layout.placedWords # <<>>
               THEN [done |-> TRUE, before |-> layout.placedWords]
                        @@ createCompactGrid(layout.placedWords, evaluation.gridSize)
               ELSE [done |-> TRUE, before |-> layout.placedWords,
                     grid |-> layout.grid, placedWords |-> layout.placedWords,
                     width |-> evaluation.gridSize, height |-> evaluation.gridSize,
                     gridSize |-> evaluation.gridSize]
       IN  evaluation' = [evaluation EXCEPT
               !.compact = shown(Layout(words, evaluation.genes, evaluation.gridSize))]
    /\ UNCHANGED <<words, runs, app>>

\* getBestGrid() of a CrosswordGA whose best solution is the evaluated
\* genome: the placement loop, then removeEmptyRowsAndColumns
GetBestGrid ==
    /\ evaluation.called
    /\ ~evaluation.best.done
    /\ ~evaluation.again.done
    /\ LET shown(layout) ==
               [done |-> TRUE, before |-> layout.placedWords]
                   @@ removeEmptyRowsAndColumns(layout.grid, layout.placedWords)
       IN  evaluation' = [evaluation EXCEPT
               !.best = shown(Layout(words, evaluation.genes, evaluation.gridSize))]
    /\ UNCHANGED <<words, runs, app>>

\* calculateFitness called a second time, on the genome as the first call
\* left it
EvaluateAgain ==
    /\ evaluation.called
    /\ ~evaluation.again.done
    /\ ~evaluation.compact.done
    /\ ~evaluation.best.done
    /\ LET result(layout) ==
               [done |-> TRUE, genes |-> evaluation.genes,
                placedWords |-> layout.placedWords,
                fitness |-> FitnessOfLayout(layout, Len(evaluation.genes),
                                            evaluation.gridSize)]
       IN  evaluation' = [evaluation EXCEPT
               !.again = result(Layout(words, evaluation.genes, evaluation.gridSize))]
    /\ UNCHANGED <<words, runs, app>>

\* the positions tried around the start of the first placed word
TrialOffsets == {-1, 0}

\* tryPlaceWord(grid, gene, placedWords) on the grid and the words of the
\* evaluated genome, and once more on the grid as the first trial left it
TryPlaceWord ==
    /\ evaluation.called
    /\ evaluation.again.done
    /\ ~evaluation.trial.done
    /\ evaluation.placedWords # <<>>
    /\ \E k \in 1..Len(words), dx \in TrialOffsets, dy \in TrialOffsets,
          direction \in {"across", "down"} :
          LET gene == [wordIndex |-> k - 1,
                       x |-> evaluation.placedWords[1].x + dx,
                       y |-> evaluation.placedWords[1].y + dy,
                       direction |-> direction, placementOrder |-> 0]
              second(gridAfter, result) ==
                  [done |-> TRUE, gene |-> gene, gridBefore |-> evaluation.grid,
                   result |-> result, gridAfter |-> gridAfter,
                   second |-> tryPlaceWord(gridAfter, evaluation.gridSize, words[k],
                                           gene, evaluation.placedWords)]
              first(result) ==
                  second(GridAfterTrial(evaluation.grid, evaluation.gridSize,
                                        words[k], gene, result), result)
          IN  evaluation' = [evaluation EXCEPT
                  !.trial = first(tryPlaceWord(evaluation.grid, evaluation.gridSize,
                                               words[k], gene, evaluation.placedWords))]
    /\ UNCHANGED <<words, runs, app>>

NextEval ==
    \/ EvaluateGenome
    \/ GetGrid
    \/ GetBestGrid
    \/ EvaluateAgain
    \/ TryPlaceWord

SpecEval == InitEval /\ [][NextEval]_vars

\* ------------------------------------------------------------------------
\* The placement loop, step by step
\* ------------------------------------------------------------------------

A == <<"A">>

ABCH == <<"A", "B", "C", "H">>

ADE == <<"A", "D", "E">>

EFG == <<"E", "F", "G">>

CHG == <<"C", "H", "G">>

SET == <<"S", "E", "T">>

PLANETS == <<"P", "L", "A", "N", "E", "T", "S">>

STAPLE == <<"S", "T", "A", "P", "L", "E">>

\* word lists with a repeated word, with one-letter words, with words that
\* share letters, with words too long to cross anywhere in a small grid,
\* and with a word that can cross two placed words at once
LayoutWordLists ==
    {<<CAT, CAT>>, <<A, A, A>>, <<TEST, SET, CAT>>, <<PLANETS, STAPLE>>,
     <<ABCH, ADE, EFG, CHG>>}

\* the grid sides the layouts are built on: the smallest, one with the
\* other parity and the largest
LayoutGridSizes == {MinGridSize, MinGridSize + 1, MaxGridSize}

\* the genome of a word list with the given placement order, every gene
\* stored at (0, 0) across
OrderedGenes(ws, order) ==
    [i \in 1..Len(ws) |-> [wordIndex |-> i - 1, x |-> 0, y |-> 0,
                           direction |-> "across", placementOrder |-> order[i] - 1]]

\* The iterations of the placement loop of calculateFitness: for the i-th
\* gene in placement order, the grid and words before it, whether it is
\* skipped, the candidates findAllIntersectionPoints returns for it and the
\* result of tryPlaceWordWithIntersection.
PlacementSteps(ws, gridSize, sortedGenes) ==
    [i \in 1..Len(sortedGenes) |->
        LET gene == sortedGenes[i]
            w == ws[gene.wordIndex + 1]
            record(prev) ==
                [gene |-> gene,
                 grid |-> prev.grid,
                 placedWords |-> prev.placedWords,
                 skipped |-> \E k \in 1..Len(prev.placedWords) :
                                prev.placedWords[k].wordIndex = gene.wordIndex,
                 isFirstWord |-> prev.placedWords = <<>>,
                 candidates |-> findAllIntersectionPoints(prev.grid, gridSize, w, gene,
                                                         prev.placedWords),
                 placement |-> tryPlaceWordWithIntersection(
                                   prev.grid, gridSize, w, gene, prev.placedWords,
                                   prev.placedWords = <<>>)]
        IN  record(PlaceAll(ws, gridSize, SubSeq(sortedGenes, 1, i - 1)))]

InitLayout ==
    /\ words \in LayoutWordLists
    /\ runs = <<>>
    /\ app = AppInit
    /\ evaluation = NoEvaluation

\* CrosswordGrid.calculateFitness(individual) on a genome of the word list,
\* with the iterations of its placement loop
EvaluateLayout ==
    /\ ~evaluation.called
    /\ \E gridSize \in LayoutGridSizes, order \in Perms(Len(words)) :
          LET genes == OrderedGenes(words, order)
              sortedGenes == SortByKey(genes, [k \in 1..Len(genes) |->
                                                  genes[k].placementOrder])
              result(layout) ==
                  [called |-> TRUE, given |-> genes, genes |-> genes,
                   gridSize |-> gridSize,
                   placedWords |-> layout.placedWords, grid |-> layout.grid,
                   connected |-> checkConnectivity(layout.placedWords),
                   fitness |-> FitnessOfLayout(layout, Len(genes), gridSize),
                   steps |-> PlacementSteps(words, gridSize, sortedGenes),
                   moved |-> NotDone]
          IN  evaluation' = result(Layout(words, genes, gridSize))
    /\ UNCHANGED <<words, runs, app>>

\* what mutate changes of a gene besides its placementOrder: x (case 0),
\* y (case 1) or direction (case 2)
MovedGene(gene, kind) ==
    IF kind = 0 THEN [gene EXCEPT !.x = MaxStoredCoord]
    ELSE IF kind = 1 THEN [gene EXCEPT !.y = MaxStoredCoord]
    ELSE [gene EXCEPT !.direction = IF @ = "across" THEN "down" ELSE "across"]

\* calculateFitness on a genome with the same words, gridSize and
\* placementOrder values, one gene of which is stored elsewhere
EvaluateMoved ==
    /\ evaluation.called
    /\ ~evaluation.moved.done
    /\ \E i \in 1..Len(words), kind \in 0..2 :
          LET genes == [evaluation.genes EXCEPT ![i] = MovedGene(@, kind)]
              result(layout) ==
                  [done |-> TRUE, genes |-> genes,
                   placedWords |-> layout.placedWords,
                   fitness |-> FitnessOfLayout(layout, Len(genes), evaluation.gridSize)]
          IN  evaluation' = [evaluation EXCEPT
                  !.moved = result(Layout(words, genes, evaluation.gridSize))]
    /\ UNCHANGED <<words, runs, app>>

NextLayout ==
    \/ EvaluateLayout
    \/ EvaluateMoved

SpecLayout == InitLayout /\ [][NextLayout]_vars

\* ------------------------------------------------------------------------
\* Properties of a single run
\* ------------------------------------------------------------------------

RunIds == DOMAIN runs

Started(r) == runs[r].pc # "constructed"

GenomeValid(genome) ==
    /\ Len(genome.genes) = Len(words)
    /\ \A i \in 1..Len(words) :
          Cardinality({k \in 1..Len(genome.genes) : genome.genes[k].wordIndex = i - 1}) = 1

GenomesOf(ga) ==
    Range(ga.population) \cup Range(ga.bestCheckpoints)
        \cup (IF ga.bestEver = Null THEN {} ELSE {ga.bestEver})

\* C1: after initialize and after every generation step, with or without
\* compaction, every genome of the population, bestEver and every checkpoint
\* has exactly one gene for each word, so no two genes share a wordIndex.
C1_GenomesValid ==
    \A r \in RunIds : Started(r) =>
        \A genome \in GenomesOf(runs[r].ga) : GenomeValid(genome)

\* a generation step of a two-word run has put a genome bred by crossover
\* (its genes in another order than the word list) into the population
C1_Witness ==
    /\ Len(words) = 2
    /\ runs[1].ga.currentGeneration >= 1
    /\ \E k \in 1..Len(runs[1].ga.population) :
          runs[1].ga.population[k].genes[1].wordIndex = 1

\* C2: from one observation of a run to the next, bestEver either stays the
\* genome it was or is replaced by one of strictly higher fitness; so its
\* fitness never decreases.
C2_BestEverMonotone ==
    [][\A r \in RunIds : runs[r].ga.bestEver # Null =>
          \/ runs'[r].ga.bestEver = runs[r].ga.bestEver
          \/ runs'[r].ga.bestEver.fitness > runs[r].ga.bestEver.fitness]_vars

\* a generation step has replaced bestEver
C2_Witness ==
    /\ runs[1].ga.currentGeneration >= 1
    /\ runs[1].sinceImprovement = 0
    /\ runs[1].ga.noImprovementCounter = 0

\* C3 as stated: after 30 consecutive generation steps without improvement
\* of bestEver, explorationMode is true.
C3_ExplorationAfter30 ==
    \A r \in RunIds : Started(r) =>
        (runs[r].sinceImprovement >= 30 => runs[r].ga.explorationMode)

\* C3, amended: after 31 consecutive generation steps without improvement of
\* bestEver explorationMode is true (the 32nd step runs exploring), and after
\* a step that improves bestEver it is false.
C3_ExplorationAfter31 ==
    \A r \in RunIds : Started(r) =>
        /\ runs[r].sinceImprovement >= 31 => runs[r].ga.explorationMode
        /\ runs[r].sinceImprovement = 0 => ~runs[r].ga.explorationMode

\* a step that began in exploration mode improved bestEver and ended it
C3_Witness ==
    /\ runs[1].wasExploring
    /\ runs[1].sinceImprovement = 0
    /\ ~runs[1].ga.explorationMode

\* C4: in every snapshot bestFitness is at least currentBestFitness and the
\* fitness of every genome of the reported population, and the genome run()
\* returns is at least as fit as every genome of the final population.
C4_BestEverDominates ==
    \A r \in RunIds :
        /\ runs[r].stats # Null =>
              /\ runs[r].stats.bestFitness >= runs[r].stats.currentBestFitness
              /\ \A f \in runs[r].stats.populationFitness : runs[r].stats.bestFitness >= f
        /\ runs[r].returned # Null =>
              \A k \in 1..Len(runs[r].ga.population) :
                  runs[r].returned.fitness >= runs[r].ga.population[k].fitness

\* C5: after initialize and after every generation step the population has
\* exactly populationSize genomes.
C5_PopulationSize ==
    \A r \in RunIds : Started(r) =>
        Len(runs[r].ga.population) = runs[r].ga.populationSize

\* C6: the snapshots delivered so far are those of generations 1, 2, 3, ...
\* one for each generation step done, in this order; a run that was never
\* told to stop has delivered exactly `generations` snapshots when it returns.
C6_SnapshotPerGeneration ==
    \A r \in RunIds :
        /\ runs[r].delivered = [i \in 1..runs[r].ga.currentGeneration |-> i]
        /\ (runs[r].pc = "returned" /\ runs[r].cancelledAt = 0) =>
              Len(runs[r].delivered) = runs[r].ga.generations

\* a run that was never told to stop has returned after all its generations
C6_Witness ==
    /\ runs[1].pc = "returned"
    /\ runs[1].cancelledAt = 0
    /\ Len(runs[1].delivered) = Generations

\* C7: once the callback has answered false for generation k, the run has
\* returned, with k generation steps done, k snapshots delivered, and the
\* bestEver of that moment as its result.
C7_CancelStops ==
    \A r \in RunIds : runs[r].cancelledAt # 0 =>
        /\ runs[r].pc = "returned"
        /\ runs[r].ga.currentGeneration = runs[r].cancelledAt
        /\ Len(runs[r].delivered) = runs[r].cancelledAt
        /\ runs[r].returned = runs[r].ga.bestEver

\* a run was told to stop before its last generation and has returned
C7_Witness ==
    /\ runs[1].cancelledAt >= 2
    /\ runs[1].cancelledAt < runs[1].ga.generations
    /\ runs[1].pc = "returned"

\* ------------------------------------------------------------------------
\* Properties of the parallel evolutions
\* ------------------------------------------------------------------------

\* the run has been launched by startEvolution
Launched(r) == "session" \in DOMAIN runs[r]

\* C8: a run launched by the App component ends only by returning from
\* run(), after its full budget of generations or at the generation where
\* its callback answered false; it never ends by an exception raised while
\* the callback processes its report.
C8_RunsEndByBudgetOrCancel ==
    \A r \in RunIds :
        Launched(r) /\ runs[r].pc # "loop" =>
            /\ runs[r].pc = "returned"
            /\ \/ runs[r].cancelledAt # 0
               \/ runs[r].ga.currentGeneration = runs[r].ga.generations

\* C9: once stopEvolution has been called, a run that was in its loop
\* executes at most the pass up to its next callback, returns there, and
\* writes nothing more into the App's state.
C9_StopHaltsAndSilences ==
    \A r \in RunIds :
        Launched(r) /\ runs[r].stopSignalled =>
            /\ runs[r].reportsAfterStop = 0
            /\ runs[r].passesAfterStop <= 1
            /\ runs[r].passesAfterStop = 1 => runs[r].pc = "returned"

\* C10: when a report improves the session best, every other evolution in
\* activeEvolutions receives the message, and the genes of the message are
\* a copy, not the array of the sending run's bestEver.
C10_InjectionDeliveredByValue ==
    app.lastShare # Null =>
        /\ app.lastShare.delivered = app.lastShare.owed
        /\ app.lastShare.owed # {} => app.lastShare.message.genesOf = 0

SessionIds == DOMAIN app.sessions

\* C11: when a run of a session has failed, every other run of that session
\* that has returned did so after its full budget or after stopEvolution was
\* called, and once no run of the session is in its loop any more the
\* session has displayed a solution chosen among the results of the others.
C11_FailureIsolated ==
    \A s \in SessionIds :
        LET mine == Range(app.sessions[s].runs)
        IN  \A r \in mine : runs[r].pc = "failed" =>
                /\ \A q \in mine \ {r} : runs[q].pc = "returned" =>
                       \/ runs[q].cancelledAt = 0
                       \/ runs[q].stopSignalled
                /\ (/\ \A q \in mine : runs[q].pc # "loop"
                    /\ \E q \in mine : runs[q].pc = "returned")
                       => app.sessions[s].selected # Null

\* C12: the solution a session displays when all its runs have returned is
\* at least as fit as the result of each of its runs and as the absolute
\* best, and it is the absolute best whenever that one is as fit as the best
\* result.
C12_WinnerIsBest ==
    \A s \in SessionIds :
        LET session == app.sessions[s]
        IN  session.state = "displayed" /\ session.selected # Null =>
                /\ \A k \in 1..Len(session.results) :
                       session.results[k] # Null =>
                           session.selected.fitness >= session.results[k].fitness
                /\ session.absoluteBestEver # Null =>
                       /\ session.selected.fitness >= session.absoluteBestEver.fitness
                       /\ (\A k \in 1..Len(session.results) :
                              session.results[k] # Null =>
                                  session.absoluteBestEver.fitness >= session.results[k].fitness)
                            => session.selected = session.absoluteBestEver

\* ------------------------------------------------------------------------
\* Properties of the evaluator and of the genomes
\* ------------------------------------------------------------------------

\* C13: every fitness stored on a genome of the population, on bestEver or
\* on a checkpoint, and every fitness the evaluator returns for a genome of
\* the word lists, is at least 0.
C13_FitnessNonNegative ==
    /\ \A r \in RunIds : \A genome \in GenomesOf(runs[r].ga) : genome.fitness >= 0
    /\ \A ws \in WordLists : \A g \in MinGridSize..MaxGridSize :
           \A key \in IndexSeqs(Len(ws)) : Evaluate(ws, KeyGenes(key), g) >= 0

\* an evaluated genome of a grid so large that the blank-cell penalty
\* exceeds all its bonuses carries fitness 0
C13_Witness ==
    /\ runs[1].ga.currentGeneration >= 1
    /\ \E k \in 1..Len(runs[1].ga.population) :
          /\ runs[1].ga.population[k].gridSize >= 15
          /\ runs[1].ga.population[k].fitness = 0

\* the longest word of the list
LongestWord == Max(0, CHOOSE m \in {Len(words[i]) : i \in 1..Len(words)} :
                          \A i \in 1..Len(words) : Len(words[i]) <= m)

\* C14: when the longest word has at most 20 letters and the configured
\* gridSize is in 10..20, every genome of a run (created at random, bred by
\* crossover and mutation, compacted) has a gridSize in 10..20.
C14_GridSizeInRange ==
    \A r \in RunIds :
        LongestWord <= 20 /\ runs[r].ga.gridSize \in 10..20 =>
            \A genome \in GenomesOf(runs[r].ga) : genome.gridSize \in 10..20

ConfigFields ==
    {"populationSize", "generations", "mutationRate", "crossoverRate",
     "elitismCount", "gridSize"}

\* C15: the run holds every configuration field the caller gave exactly as
\* given, the value 0 included; only a field that was not given holds its
\* default.
C15_ConfigUsedAsGiven ==
    \A r \in RunIds : \A f \in ConfigFields :
        runs[r].config[f] # Absent => runs[r].ga[f] = runs[r].config[f]

BothCrossed(genome) ==
    LET placedWords == Layout(words, genome.genes, genome.gridSize).placedWords
    IN  /\ Len(placedWords) = 2
        /\ placedWords[2].intersections >= 1

\* C17: the best solution a run over CAT and CAR returns after all its
\* generations has both words placed with at least one intersection and a
\* fitness above 21000.
C17_PairAbove21000 ==
    \A r \in RunIds :
        words = <<CAT, CAR>> /\ runs[r].pc = "returned" /\ runs[r].cancelledAt = 0 =>
            /\ BothCrossed(runs[r].returned)
            /\ runs[r].returned.fitness > 21000

\* C18: for the words ABCD and EFGH, which share no letter, every
\* evaluation places at most one word and returns a fitness below 20000.
C18_DisjointWordsOnePlaced ==
    evaluation.called /\ words = <<ABCD, EFGH>> =>
        /\ Len(evaluation.placedWords) <= 1
        /\ evaluation.fitness < 20000

\* a genome of ABCD and EFGH evaluated with EFGH first: EFGH alone is placed
C18_Witness ==
    /\ evaluation.called
    /\ words = <<ABCD, EFGH>>
    /\ Len(evaluation.placedWords) = 1
    /\ evaluation.placedWords[1].wordIndex = 1
    /\ evaluation.fitness = 1000

\* the words of a post-processed grid are the words placed before it, moved
\* together: each word keeps its letters, its direction and its index, its
\* cells run from its (x, y) along its direction inside the grid, the grid
\* holds its letters there, and any two words keep their offset
WordsPreserved(shown) ==
    /\ Len(shown.placedWords) = Len(shown.before)
    /\ \A k \in 1..Len(shown.placedWords) :
          LET w == shown.placedWords[k]
              b == shown.before[k]
          IN  /\ w.word = b.word
              /\ w.direction = b.direction
              /\ w.wordIndex = b.wordIndex
              /\ Len(w.cells) = Len(w.word)
              /\ \A i \in 1..Len(w.cells) :
                    /\ w.cells[i].x = IF w.direction = "across" THEN w.x + (i - 1) ELSE w.x
                    /\ w.cells[i].y = IF w.direction = "down" THEN w.y + (i - 1) ELSE w.y
                    /\ w.cells[i].letter = w.word[i]
                    /\ w.cells[i].x \in 0..(shown.width - 1)
                    /\ w.cells[i].y \in 0..(shown.height - 1)
                    /\ <<w.cells[i].x, w.cells[i].y>> \in DOMAIN shown.grid
                    /\ shown.grid[<<w.cells[i].x, w.cells[i].y>>] = w.word[i]
              /\ \A j \in 1..Len(shown.placedWords) :
                    /\ w.x - shown.placedWords[j].x = b.x - shown.before[j].x
                    /\ w.y - shown.placedWords[j].y = b.y - shown.before[j].y

\* C19: the grid getGrid returns (bounding-box crop with one cell of
\* padding) and the grid getBestGrid returns (empty rows and columns removed)
\* preserve every placed word: its cells are consecutive along its direction
\* from its reported (x, y), the grid holds its letters at those cells in
\* reading order, and the offset between any two words is the one before.
C19_PostProcessingPreservesWords ==
    evaluation.called =>
        /\ evaluation.compact.done => WordsPreserved(evaluation.compact)
        /\ evaluation.best.done => WordsPreserved(evaluation.best)

\* CAT and CAR placed crossing, shown by getGrid and by getBestGrid, both of
\* which moved the first word
C19_Witness ==
    /\ evaluation.called
    /\ evaluation.compact.done
    /\ evaluation.best.done
    /\ Len(evaluation.placedWords) = 2
    /\ evaluation.compact.placedWords[1].x # evaluation.compact.before[1].x
    /\ evaluation.best.placedWords[1].y # evaluation.best.before[1].y

C21_LayoutConnected ==
    evaluation.called =>
        LET placedWords == evaluation.placedWords
            n == Len(placedWords)
        IN  /\ \A k \in 2..n :
                  /\ placedWords[k].intersections >= 1
                  /\ \E j \in 1..(k - 1) :
                        /\ placedWords[j].direction # placedWords[k].direction
                        /\ CellSet(placedWords[j]) \cap CellSet(placedWords[k]) # {}
            /\ evaluation.connected
            /\ ~(~evaluation.connected /\ n > 1)
            /\ {k \in 2..n : placedWords[k].intersections = 0} = {}

\* the four words ABCH, ADE, EFG, CHG all placed, CHG crossing two of them
C21_Witness ==
    /\ evaluation.called
    /\ Len(words) = 4
    /\ Len(evaluation.placedWords) = 4
    /\ \E k \in 2..4 : evaluation.placedWords[k].intersections = 2
    /\ evaluation.connected

\* C22: in the layout of every evaluation no two placed words of the same
\* direction share a cell, and the grid holds at every cell of every placed
\* word the letter of that word.
C22_NoParallelOverlap ==
    evaluation.called =>
        LET placedWords == evaluation.placedWords
            n == Len(placedWords)
        IN  /\ \A j, k \in 1..n :
                  j < k /\ placedWords[j].direction = placedWords[k].direction =>
                      CellSet(placedWords[j]) \cap CellSet(placedWords[k]) = {}
            /\ \A k \in 1..n : \A c \in Range(placedWords[k].cells) :
                  /\ <<c.x, c.y>> \in DOMAIN evaluation.grid
                  /\ evaluation.grid[<<c.x, c.y>>] = c.letter

\* two cells next to each other in a row or in a column
Adjacent(c, d) ==
    \/ c[1] = d[1] /\ Abs(c[2] - d[2]) = 1
    \/ c[2] = d[2] /\ Abs(c[1] - d[1]) = 1

\* C23: in the layout of every evaluation any two filled cells next to each
\* other in a row or a column are both cells of one placed word.
C23_NoTouchingWords ==
    evaluation.called =>
        \A c, d \in DOMAIN evaluation.grid :
            Adjacent(c, d) =>
                \E k \in 1..Len(evaluation.placedWords) :
                    /\ c \in CellSet(evaluation.placedWords[k])
                    /\ d \in CellSet(evaluation.placedWords[k])

\* TEST, SET and CAT all placed: three words, crossing, none beside another
C23_Witness ==
    /\ evaluation.called
    /\ words = <<TEST, SET, CAT>>
    /\ Len(evaluation.placedWords) = 3
    /\ \E c, d \in DOMAIN evaluation.grid : Adjacent(c, d)

\* the iterations of the placement loop that try a word after the first
LaterSteps ==
    {i \in 1..Len(evaluation.steps) :
        ~evaluation.steps[i].skipped /\ ~evaluation.steps[i].isFirstWord}

\* C24: for every word after the first, the placement the evaluator accepts
\* is one of the candidates that passed the trial and no candidate that
\* passed has more intersections; the word is left unplaced exactly when no
\* candidate passed.
C24_BestCandidateAccepted ==
    evaluation.called =>
        \A i \in LaterSteps :
            LET step == evaluation.steps[i]
                passed == Range(step.candidates)
            IN  /\ step.placement.success <=> passed # {}
                /\ step.placement.success =>
                      /\ \E c \in passed :
                            /\ c.x = step.placement.x
                            /\ c.y = step.placement.y
                            /\ c.direction = step.placement.direction
                            /\ c.intersections = step.placement.intersections
                      /\ \A c \in passed :
                            c.intersections <= step.placement.intersections
                      /\ \E k \in 1..Len(evaluation.placedWords) :
                            evaluation.placedWords[k] = step.placement

\* a word with candidates of one and of two intersections is placed with
\* its two intersections
C24_Witness ==
    /\ evaluation.called
    /\ \E i \in LaterSteps :
          /\ evaluation.steps[i].placement.success
          /\ evaluation.steps[i].placement.intersections = 2
          /\ \E c \in Range(evaluation.steps[i].candidates) : c.intersections = 1

\* C30: a genome with the same words, gridSize and placementOrder values
\* as an evaluated genome, but with a gene stored at another x, y or
\* direction, evaluates to the same placed words and the same fitness.
C30_StoredPositionIgnored ==
    evaluation.called /\ evaluation.moved.done =>
        /\ evaluation.moved.genes # evaluation.genes
        /\ \A i \in 1..Len(evaluation.genes) :
              /\ evaluation.moved.genes[i].wordIndex = evaluation.genes[i].wordIndex
              /\ evaluation.moved.genes[i].placementOrder = evaluation.genes[i].placementOrder
        /\ evaluation.moved.placedWords = evaluation.placedWords
        /\ evaluation.moved.fitness = evaluation.fitness

\* the gene placed first was stored in another row, and all four words of
\* the list are placed in both evaluations
C30_Witness ==
    /\ evaluation.called
    /\ evaluation.moved.done
    /\ Len(evaluation.moved.placedWords) = 4
    /\ \E i \in 1..Len(evaluation.genes) :
          /\ evaluation.genes[i].placementOrder = 0
          /\ evaluation.moved.genes[i].y # evaluation.genes[i].y

\* ------------------------------------------------------------------------
\* Long stalls: the checkpoints and the exploration reset
\* ------------------------------------------------------------------------
\* A run in which the genomes that breeding produces are inputs: each
\* generation either brings nothing better than bestEver (the copy of
\* bestEver that evolve always keeps is then the top of the population) or
\* brings the next better genome of StallTops. Everything evolve and
\* updateBest do with the population is as in the code.

StallWords == <<TEST, SET, CAT>>

StallGenerations == 58

EarlyGenerations == 5

\* gridSize and placement order of the genomes, in ascending fitness
StallShapes ==
    <<[gridSize |-> 15, order |-> <<2, 3, 1>>],
      [gridSize |-> 14, order |-> <<2, 3, 1>>],
      [gridSize |-> 14, order |-> <<2, 1, 3>>],
      [gridSize |-> 13, order |-> <<2, 3, 1>>],
      [gridSize |-> 12, order |-> <<2, 3, 1>>],
      [gridSize |-> 11, order |-> <<2, 3, 1>>],
      [gridSize |-> 10, order |-> <<2, 3, 1>>]>>

\* individuals createRandomIndividual can return for StallWords at base
\* gridSize 10, with the fitness evaluateFitness gives them
StallTops ==
    [k \in 1..Len(StallShapes) |->
        WithFitness(StallWords,
                    [genes |-> OrderedGenes(StallWords, StallShapes[k].order),
                     gridSize |-> StallShapes[k].gridSize,
                     fitness |-> 0])]

\* the run with the record of its checkpoints: recorded lists every
\* checkpoint updateBest has pushed, pushed tells whether the last
\* generation pushed one, gain is the rise of bestEver.fitness in it
StallRun ==
    NewRun(Configuration(2, Absent, 1))
        @@ [recorded |-> <<>>, pushed |-> FALSE, gain |-> 0]

InitStall ==
    /\ words = StallWords
    /\ runs = <<StallRun>>
    /\ app = AppInit
    /\ evaluation = NoEvaluation

\* run(): initialize() (line 278) making the least fit of StallTops
InitializeWith ==
    /\ runs[1].pc = "constructed"
    /\ LET ga == InitializeTo(runs[1].ga, <<StallTops[1], StallTops[1]>>)
       IN  runs' = [runs EXCEPT ![1].ga = ga, ![1].pc = "loop",
                                ![1].recorded = ga.bestCheckpoints]
    /\ UNCHANGED <<words, app, evaluation>>

\* the best genome a generation can bring: nothing better than bestEver,
\* or, early in the run or while it explores, the next better one
NextTops(run) ==
    LET better == {k \in 1..Len(StallTops) :
                        StallTops[k].fitness > run.ga.bestEver.fitness}
    IN  {run.ga.bestEver} \cup
        {StallTops[k] : k \in {j \in better :
            /\ \A i \in better : j <= i
            /\ \/ run.gen < EarlyGenerations
               \/ run.ga.explorationMode}}

\* one pass of the loop of run() (lines 282-318) in which evolve builds
\* the population of the copy of bestEver and top
GenerationWith ==
    /\ runs[1].pc = "loop"
    /\ runs[1].gen < StallGenerations
    /\ \E top \in NextTops(runs[1]), cps \in CheckpointOrders(runs[1].ga),
          shouldContinue \in BOOLEAN :
          LET ga == EvolveTo(runs[1].ga, <<runs[1].ga.bestEver, top>>, cps)
              pushed == ga.bestCheckpoints # cps
          IN  runs' = [runs EXCEPT ![1] =
                        [AfterPass(@, ga, shouldContinue) EXCEPT
                            !.recorded = IF pushed THEN Append(@, ga.bestEver) ELSE @,
                            !.pushed = pushed,
                            !.gain = ga.bestEver.fitness - runs[1].ga.bestEver.fitness]]
    /\ UNCHANGED <<words, app, evaluation>>

NextStall ==
    \/ InitializeWith
    \/ GenerationWith

SpecStall == InitStall /\ [][NextStall]_vars

\* C25: after every generation explorationMode is true exactly when
\* noImprovementCounter is above 30; a run that was exploring and did not
\* improve bestEver is still exploring; and after the step that sets
\* noImprovementCounter back from above 50 to 30 the run is exploring.
C25_ExplorationUntilImprovement ==
    Started(1) =>
        /\ runs[1].ga.explorationMode <=>
               runs[1].ga.noImprovementCounter > ExplorationEnter
        /\ (runs[1].wasExploring /\ runs[1].sinceImprovement > 0)
               => runs[1].ga.explorationMode
        /\ runs[1].ga.noImprovementCounter < runs[1].sinceImprovement
               => runs[1].ga.explorationMode

C25_Witness ==
    /\ Started(1)
    /\ runs[1].ga.noImprovementCounter < runs[1].sinceImprovement
    /\ runs[1].sinceImprovement > ExplorationCeiling + 1
    /\ runs[1].ga.explorationMode

\* C26: a generation records a checkpoint exactly when it raises
\* bestEver.fitness by more than 1000 over its previous value.
C26_CheckpointOnLargeGain ==
    (Started(1) /\ runs[1].delivered # <<>>) =>
        (runs[1].pushed <=> runs[1].gain > CheckpointGap)

\* the checkpoints recorded last, at most MaxCheckpoints of them
MostRecent(recorded) ==
    {recorded[k] : k \in {j \in 1..Len(recorded) : j > Len(recorded) - MaxCheckpoints}}

\* C27: the checkpoint list holds at most 5 entries, they are the
\* checkpoints recorded last (in any order), and none of them is fitter
\* than bestEver.
C27_CheckpointsMostRecent ==
    Started(1) =>
        LET checkpoints == runs[1].ga.bestCheckpoints
        IN  /\ Len(checkpoints) <= MaxCheckpoints
            /\ {checkpoints[k] : k \in 1..Len(checkpoints)} = MostRecent(runs[1].recorded)
            /\ \A k \in 1..Len(checkpoints) :
                    checkpoints[k].fitness <= runs[1].ga.bestEver.fitness

\* ------------------------------------------------------------------------
\* One backtracking variation, step by step
\* ------------------------------------------------------------------------

MinMutationPasses == 5

MutationPassRange == 5

\* checkpoint lists of a run over StallWords when it starts to explore
BacktrackCheckpoints ==
    {<<StallTops[1]>>,
     <<StallTops[1], StallTops[2]>>,
     <<StallTops[1], StallTops[2], StallTops[4]>>}

InitBacktrack ==
    /\ words = StallWords
    /\ runs = <<>>
    /\ app = AppInit
    /\ evaluation = NoEvaluation

\* one iteration of the backtracking loop of evolve (lines 131-169):
\* the checkpoint chosen, its copy, the number of calls of mutate, what the
\* last of these calls returned, and the variation pushed to the population
Backtrack ==
    /\ ~evaluation.called
    /\ \E checkpoints \in BacktrackCheckpoints :
       \E c \in RandFloor("checkpoint", Len(checkpoints)),
          k \in RandFloor("mutationCount", MutationPassRange) :
          LET gridSize == StallRun.ga.gridSize
              clone == checkpoints[c + 1]
          IN  \E returned \in mutate(words, clone, gridSize * 100),
                 variation \in VariationsOf(words, gridSize, clone) :
                 evaluation' = [called |-> TRUE,
                                checkpoints |-> checkpoints,
                                checkpoint |-> checkpoints[c + 1],
                                mutationCount |-> MinMutationPasses + k,
                                returned |-> returned,
                                variation |-> variation]
    /\ UNCHANGED <<words, runs, app>>

NextBacktrack == Backtrack

SpecBacktrack == InitBacktrack /\ [][NextBacktrack]_vars

\* C28: the variation that enters the population carries the changes of
\* the mutation passes: its gridSize is the gridSize of the genome the last
\* pass returned.
C28_VariationCarriesPasses ==
    evaluation.called =>
        evaluation.variation.gridSize = evaluation.returned.gridSize

\* C29: no pass of the offspring-production loop discards its offspring:
\* whatever tournament selection, crossover and mutation produce from the
\* population of a run, and whatever the crossover of such an offspring
\* with bestEver produces, has one gene for every word after the
\* uniqueness filter; so every pass adds a genome and the loop ends after
\* populationSize - newPopulation.length passes.
C29_NoOffspringDiscarded ==
    (Started(1) /\ runs[1].pc = "loop") =>
        LET offspring == Offspring(words, runs[1].ga)
        IN  offspring # {} /\ \A o \in offspring :
                /\ Len(o.genes) = Len(words)
                /\ \A hybrid \in crossover(o, runs[1].ga.bestEver) :
                        Len(UniqueGenes(hybrid.genes)) = Len(words)

\* a generation of a two-word run has filled the population with an
\* offspring bred by crossover (its genes in another order than the words)
C29_Witness ==
    /\ Len(words) = 2
    /\ runs[1].pc = "loop"
    /\ runs[1].delivered # <<>>
    /\ Len(runs[1].ga.population) = runs[1].ga.populationSize
    /\ runs[1].ga.population[Len(runs[1].ga.population)].genes[1].wordIndex = 1

====
